---- MODULE Spec2Model ----
(***************************************************************************)
(* Member status / bureau-role lifecycle of the membership service         *)
(* (admin API `updateMember`, `deleteMember`, `batchUpdateMembers`,        *)
(* `importCSV`, and the public `apply`), over the D1 tables `members` and  *)
(* `membership_history`; the read-only admin handlers and the settings     *)
(* handlers over the table `settings`; the `adminOnly` wrapper.            *)
(*                                                                         *)
(* Every request is one task.  A task's step is one storage statement      *)
(* (`env.DB.prepare(...).run()/.first()/.all()`) together with the local   *)
(* JavaScript that follows it up to the next `await`; the storage engine   *)
(* executes each statement atomically.                                     *)
(*                                                                         *)
(* JavaScript strings are sequences of one-character strings, so that      *)
(* trim / toLowerCase / indexOf are computed, not assumed.                 *)
(***************************************************************************)
EXTENDS Integers, Sequences, FiniteSets, TLC

VARIABLES
  members,     \* table members: id -> row, for the ids that exist
  nextId,      \* AUTOINCREMENT counter of members
  history,     \* table membership_history, in insertion order
  nextHistId,  \* AUTOINCREMENT counter of membership_history
  tasks,       \* the requests in flight: task -> its local state
  now,         \* the wall clock read by `new Date()`: [year, month]
  settings     \* table settings: key -> value

vars == <<members, nextId, history, nextHistId, tasks, now, settings>>

-----------------------------------------------------------------------------
(* Bounds of the model *)

\* largest member id the storage hands out (inserts stop there)
MaxId == 4
\* longest CSV, in data rows, an import request carries
MaxRows == 2
\* the same for the imports of SpecCsv, whose row menu is smaller
MaxCsvRows == 3
\* most rows with a malformed email in one CSV
MaxFailed == 11

\* the concurrent request handlers
Tasks == {"t1", "t2"}

-----------------------------------------------------------------------------
(* JavaScript values *)

\* null (SQL NULL) and undefined (an absent key) for string-valued places;
\* no string is equal to either: a string's elements are single characters
Null == <<"NULL">>
Absent == <<"UNDEFINED">>
\* the same two for the places that hold an opaque TLA+ string (a status, a
\* reason, a timestamp)
NullStr == "NULL"
AbsentStr == "UNDEFINED"
\* a date column that is NULL
NullDate == <<>>

IsSpace(c) == c \in {" ", "\t", "\n", "\r"}

RECURSIVE TrimStart(_)
TrimStart(s) == IF s # <<>> /\ IsSpace(Head(s)) THEN TrimStart(Tail(s)) ELSE s

RECURSIVE TrimEnd(_)
TrimEnd(s) ==
  IF s # <<>> /\ IsSpace(s[Len(s)]) THEN TrimEnd(SubSeq(s, 1, Len(s) - 1)) ELSE s

\* String.prototype.trim
Trim(s) == TrimEnd(TrimStart(s))

LowerChar(c) ==
  CASE c = "A" -> "a" [] c = "B" -> "b" [] c = "C" -> "c" [] c = "D" -> "d"
    [] c = "E" -> "e" [] c = "F" -> "f" [] c = "G" -> "g" [] c = "H" -> "h"
    [] c = "I" -> "i" [] c = "J" -> "j" [] c = "K" -> "k" [] c = "L" -> "l"
    [] c = "M" -> "m" [] c = "N" -> "n" [] c = "O" -> "o" [] c = "P" -> "p"
    [] c = "Q" -> "q" [] c = "R" -> "r" [] c = "S" -> "s" [] c = "T" -> "t"
    [] c = "U" -> "u" [] c = "V" -> "v" [] c = "W" -> "w" [] c = "X" -> "x"
    [] c = "Y" -> "y" [] c = "Z" -> "z" [] c = "É" -> "é"
    [] OTHER -> c

\* String.prototype.toLowerCase
ToLower(s) == [i \in 1..Len(s) |-> LowerChar(s[i])]

\* `v?.trim() || null` of the nullable text columns
TrimOrNull(v) == IF v = Null \/ Trim(v) = <<>> THEN Null ELSE Trim(v)

-----------------------------------------------------------------------------
(* Status taxonomy *)

VALID_STATUSES ==
  {"pending", "active", "honor", "secretary", "treasurer", "president",
   "honorary_president", "vice_president", "rejected", "expired"}

\* (mutation) honorary_president counted among the unique positions
BureauWithHonorary ==
  {"secretary", "treasurer", "president", "vice_president", "honorary_president"}

BUREAU_POSITIONS == {"secretary", "treasurer", "president", "vice_president"}

\* the display label of a status, as the conflict message prints it
STATUS_LABELS(s) ==
  CASE s = "pending" -> "En attente"
    [] s = "active" -> "Membre actif"
    [] s = "honor" -> "Membre d'honneur"
    [] s = "secretary" -> "Secrétaire"
    [] s = "treasurer" -> "Trésorier"
    [] s = "president" -> "Président"
    [] s = "honorary_president" -> "Président d'honneur"
    [] s = "vice_president" -> "Vice-président"
    [] s = "rejected" -> "Refusé"
    [] s = "expired" -> "Expiré"

\* `activeStatuses` of setApprovalDates
activeStatuses == {"active", "honor"} \cup BUREAU_POSITIONS

\* (mutation) the expiry year with September counted in the ending year
ExpiryDateLate(clock) ==
  <<(IF clock.month > 8 THEN clock.year + 1 ELSE clock.year), 8, 31>>

\* `${year}-08-31` with year = month >= 8 ? year + 1 : year
ExpiryDate(clock) ==
  <<(IF clock.month >= 8 THEN clock.year + 1 ELSE clock.year), 8, 31>>

\* `reason || 'Status updated by admin'`: undefined, null and '' are falsy
ReasonOrDefault(r) ==
  IF r = AbsentStr \/ r = NullStr \/ r = "" THEN "Status updated by admin" ELSE r

-----------------------------------------------------------------------------
(* Storage: rows and statements *)

\* CURRENT_TIMESTAMP written by a statement of this run, and one written by
\* a request that completed before the run started
NowStamp == "now"
EarlierStamp == "earlier"

\* (mutation) the holders of s, the row itself included
HoldersWithSelf(m, s, except) == {i \in DOMAIN m : m[i].status = s}

\* ids of the rows holding status s, other than row `except`
\* (SELECT ... FROM members WHERE status = ? AND id != ?)
Holders(m, s, except) == {i \in DOMAIN m : m[i].status = s /\ i # except}

\* ids of the rows with this email (the column is UNIQUE)
ByEmail(m, e) == {i \in DOMAIN m : m[i].email = e}

\* INSERT INTO membership_history: the row appended.  `actual_old` is not a
\* column: it records the status the member row held in storage just before
\* the status write this entry logs.
HistoryEntry(hid, memberId, old, new, reason, actual) ==
  [id |-> hid, member_id |-> memberId, old_status |-> old, new_status |-> new,
   reason |-> reason, actual_old |-> actual]

\* FOREIGN KEY (member_id) REFERENCES members(id): D1 enforces foreign keys,
\* so an insert for a member row that is gone fails
HistoryInsertOk(m, memberId) == memberId \in DOMAIN m

\* (mutation) a delete that clears the whole history table
CascadeDeleteAll(h, memberId) == <<>>

\* ... ON DELETE CASCADE: deleting a member row deletes its history rows
CascadeDelete(h, memberId) ==
  LET keep(e) == e.member_id # memberId IN SelectSeq(h, keep)

-----------------------------------------------------------------------------
(* Requests and their local state *)

\* a request body of PUT /api/admin/members/:id: the keys the handler reads,
\* Absent for a key the body does not carry.  approvedAt and expiresAt are
\* only tested for presence (handleStatusChange), never stored.
NoBody ==
  [status |-> AbsentStr, reason |-> AbsentStr,
   firstName |-> Absent, lastName |-> Absent, email |-> Absent,
   studentId |-> Absent, enrollmentTrack |-> Absent, phone |-> Absent,
   telegram |-> Absent, discord |-> Absent, enrollmentNumber |-> Absent,
   notes |-> Absent, approvedAt |-> FALSE, expiresAt |-> FALSE]

\* the `updates` / `values` arrays: the value each column is set to, Absent
\* for a column that is not in the list (the updated_at column is not
\* modelled; approved_at is set together with expires_at)
NoUpd ==
  [first_name |-> Absent, last_name |-> Absent, email |-> Absent,
   student_id |-> Absent, enrollment_track |-> Absent, phone |-> Absent,
   telegram |-> Absent, discord |-> Absent, enrollment_number |-> Absent,
   notes |-> Absent, status |-> AbsentStr, expires_at |-> Absent]

\* updates.length === 0
UpdEmpty(u) == u = NoUpd

\* the response of a request; "none" while it is in flight
Res(code) == [code |-> code, role |-> "", first_name |-> <<>>, last_name |-> <<>>]

\* (mutation) the conflict message without the holder's name
ConflictResUnnamed(newStatus, row) ==
  [code |-> "conflict", role |-> STATUS_LABELS(newStatus),
   first_name |-> <<>>, last_name |-> <<>>]

\* `Le rôle ${STATUS_LABELS[newStatus]} est déjà attribué à ${first} ${last}`
ConflictRes(newStatus, row) ==
  [code |-> "conflict", role |-> STATUS_LABELS(newStatus),
   first_name |-> row.first_name, last_name |-> row.last_name]

\* env.ADMIN_TOKEN
ADMIN_TOKEN == <<"s", "3", "c">>

\* the Authorization header of the administrator
AdminHeader == <<"B", "e", "a", "r", "e", "r", " ">> \o ADMIN_TOKEN

\* String.prototype.startsWith
StartsWith(s, prefix) ==
  Len(s) >= Len(prefix) /\ SubSeq(s, 1, Len(prefix)) = prefix

\* timingSafeEqual: the same number of bytes, and no byte that differs
timingSafeEqual(a, b) ==
  /\ a \notin {Null, Absent} /\ b \notin {Null, Absent}
  /\ Len(a) = Len(b)
  /\ \A i \in 1..Len(a) : a[i] = b[i]

\* (mutation) any bearer token is accepted
isAuthorizedAnyToken(authHeader, adminToken) ==
  /\ authHeader # Null
  /\ StartsWith(authHeader, <<"B", "e", "a", "r", "e", "r", " ">>)
  /\ SubSeq(authHeader, 8, Len(authHeader)) # <<>>

\* isAuthorized: `headers.get` gives null for a header that is not there
isAuthorized(authHeader, adminToken) ==
  /\ authHeader # Null
  /\ StartsWith(authHeader, <<"B", "e", "a", "r", "e", "r", " ">>)
  /\ LET token == SubSeq(authHeader, 8, Len(authHeader))
     IN /\ token # <<>>
        /\ adminToken \notin {Absent, Null, <<>>}
        /\ timingSafeEqual(token, adminToken)

\* a task's local state.  `prev`, `m0`, `h0` and `t0` are not program state:
\* they record the status the task's status write replaced, and the two
\* tables and the clock as they were when the request started.  `auth` is
\* the request's Authorization header: the administrator's, unless
\* adminOnly is given the request with another.
IdleTask ==
  [kind |-> "idle", pc |-> "idle", id |-> 0, body |-> NoBody,
   cur |-> AbsentStr, upd |-> NoUpd, result |-> Res("none"),
   ids |-> <<>>, k |-> 0, status |-> AbsentStr, reason |-> AbsentStr,
   form |-> <<>>, errs |-> <<>>,
   csv |-> <<>>, label |-> Absent, rows |-> <<>>, stats |-> <<>>, inImport |-> <<>>, bmap |-> <<>>, found |-> 0,
   auth |-> AdminHeader, config |-> <<>>,
   prev |-> AbsentStr, m0 |-> <<>>, h0 |-> <<>>, t0 |-> <<>>]

\* the task of an admin handler that adminOnly has let through
AdminTask(t) == [IdleTask EXCEPT !.auth = tasks[t].auth]

\* adminOnly: the handler `op` is called only for an authorized request
Admitted(t, op) ==
  /\ tasks[t].pc = "idle"
  /\ tasks[t].kind \in {"idle", op}
  /\ isAuthorized(tasks[t].auth, ADMIN_TOKEN)

Done(tk, res) == [tk EXCEPT !.pc = "done", !.result = res]

-----------------------------------------------------------------------------
(* updateMember: PUT /api/admin/members/:id *)

\* `v.trim()` of a null firstName / lastName / email is a TypeError
ThrowsInBuild(body) ==
  body.firstName = Null \/ body.lastName = Null \/ body.email = Null

buildFieldUpdates(body) ==
  [NoUpd EXCEPT
     !.first_name = IF body.firstName = Absent THEN Absent ELSE Trim(body.firstName),
     !.last_name = IF body.lastName = Absent THEN Absent ELSE Trim(body.lastName),
     !.email = IF body.email = Absent THEN Absent ELSE Trim(ToLower(body.email)),
     !.student_id = IF body.studentId = Absent THEN Absent ELSE TrimOrNull(body.studentId),
     !.enrollment_track = body.enrollmentTrack,
     !.phone = IF body.phone = Absent THEN Absent ELSE TrimOrNull(body.phone),
     !.telegram = IF body.telegram = Absent THEN Absent ELSE TrimOrNull(body.telegram),
     !.discord = IF body.discord = Absent THEN Absent ELSE TrimOrNull(body.discord),
     !.enrollment_number =
        IF body.enrollmentNumber = Absent THEN Absent ELSE TrimOrNull(body.enrollmentNumber),
     !.notes = IF body.notes = Absent THEN Absent ELSE TrimOrNull(body.notes)]

\* (mutation) setApprovalDates without its test of the current status
setApprovalDatesAlways(newStatus, currentStatus, u) ==
  IF newStatus \in activeStatuses
  THEN [u EXCEPT !.expires_at = ExpiryDate(now)]
  ELSE u

\* pushes approved_at = CURRENT_TIMESTAMP and expires_at = ? when the member
\* enters the active statuses
setApprovalDates(newStatus, currentStatus, u) ==
  IF newStatus \in activeStatuses /\ currentStatus \notin activeStatuses
  THEN [u EXCEPT !.expires_at = ExpiryDate(now)]
  ELSE u

\* UPDATE members SET <updates> WHERE id = ?, on the row it matches
ApplyUpd(row, u) ==
  [row EXCEPT
     !.first_name = IF u.first_name = Absent THEN @ ELSE u.first_name,
     !.last_name = IF u.last_name = Absent THEN @ ELSE u.last_name,
     !.email = IF u.email = Absent THEN @ ELSE u.email,
     !.student_id = IF u.student_id = Absent THEN @ ELSE u.student_id,
     !.enrollment_track = IF u.enrollment_track = Absent THEN @ ELSE u.enrollment_track,
     !.phone = IF u.phone = Absent THEN @ ELSE u.phone,
     !.telegram = IF u.telegram = Absent THEN @ ELSE u.telegram,
     !.discord = IF u.discord = Absent THEN @ ELSE u.discord,
     !.enrollment_number = IF u.enrollment_number = Absent THEN @ ELSE u.enrollment_number,
     !.notes = IF u.notes = Absent THEN @ ELSE u.notes,
     !.status = IF u.status = AbsentStr THEN @ ELSE u.status,
     !.approved_at = IF u.expires_at = Absent THEN @ ELSE NowStamp,
     !.expires_at = IF u.expires_at = Absent THEN @ ELSE u.expires_at]

\* the UPDATE of row id fails on a constraint: email TEXT NOT NULL UNIQUE
\* (another row has the email), enrollment_track TEXT NOT NULL (a null
\* enrollmentTrack is bound as it is)
UpdateFails(m, id, u) ==
  /\ id \in DOMAIN m
  /\ \/ u.email # Absent /\ ByEmail(m, u.email) \ {id} # {}
     \/ u.enrollment_track = Null

\* `hasOtherUpdates` of handleStatusChange
hasOtherUpdates(body) ==
  \/ body.approvedAt
  \/ body.expiresAt
  \/ body.enrollmentNumber # Absent
  \/ body.notes # Absent

\* updateMember after the status handling: pushes updated_at and answers
\* 'No updates provided' when nothing else is in the list
UpdateBeforeFinal(tk) ==
  IF UpdEmpty(tk.upd) THEN Done(tk, Res("no_updates")) ELSE [tk EXCEPT !.pc = "final"]

\* `Invalid status. Must be one of: ${VALID_STATUSES.join(', ')}`
InvalidStatusRes ==
  [code |-> "invalid_status", role |-> "", first_name |-> <<>>, last_name |-> <<>>,
   listed |-> VALID_STATUSES]

\* (mutation) handleStatusChange without the check of the status
handleStatusChangeUnchecked(tk) ==
  LET body == tk.body IN
  IF body.status = AbsentStr THEN UpdateBeforeFinal(tk)
  ELSE IF body.status \in BUREAU_POSITIONS THEN [tk EXCEPT !.pc = "cas"]
  ELSE UpdateBeforeFinal(
         [tk EXCEPT !.upd = setApprovalDates(body.status, tk.cur,
                                             [tk.upd EXCEPT !.status = body.status])])

\* handleStatusChange up to its first storage statement
handleStatusChange(tk) ==
  LET body == tk.body IN
  IF body.status = AbsentStr THEN UpdateBeforeFinal(tk)
  ELSE IF body.status \notin VALID_STATUSES THEN Done(tk, InvalidStatusRes)
  ELSE IF body.status \in BUREAU_POSITIONS THEN [tk EXCEPT !.pc = "cas"]
  ELSE UpdateBeforeFinal(
         [tk EXCEPT !.upd = setApprovalDates(body.status, tk.cur,
                                             [tk.upd EXCEPT !.status = body.status])])

\* SELECT * FROM members WHERE id = ?, then buildFieldUpdates and the start
\* of handleStatusChange
UpdateStart(t, menu) ==
  /\ Admitted(t, "update")
  /\ \E req \in menu :
       LET tk == [AdminTask(t) EXCEPT !.kind = "update", !.id = req.id,
                                  !.body = req.body, !.m0 = members, !.h0 = history,
                                  !.t0 = now]
       IN tasks' = [tasks EXCEPT ![t] =
            IF req.id \notin DOMAIN members THEN Done(tk, Res("not_found"))
            ELSE IF ThrowsInBuild(req.body) THEN Done(tk, Res("failed"))
            ELSE handleStatusChange(
                   [tk EXCEPT !.cur = members[req.id].status,
                              !.upd = buildFieldUpdates(req.body)])]
  /\ UNCHANGED <<members, nextId, history, nextHistId, now, settings>>

\* (mutation) the update without its NOT EXISTS guard
CasUnguarded(m, id, newStatus) == id \in DOMAIN m

\* the conditional UPDATE of handleBureauStatusUpdate: the rows it changes
CasApplies(m, id, newStatus) == id \in DOMAIN m /\ Holders(m, newStatus, id) = {}

\* handleBureauStatusUpdate: UPDATE members SET status = ? WHERE id = ? AND
\* NOT EXISTS (SELECT 1 FROM members WHERE status = ? AND id != ?)
UpdateCas(t) ==
  LET tk == tasks[t] IN
  /\ tk.kind = "update" /\ tk.pc = "cas"
  /\ IF CasApplies(members, tk.id, tk.body.status)
     THEN /\ members' = [members EXCEPT ![tk.id].status = tk.body.status]
          /\ tasks' = [tasks EXCEPT ![t] =
               [tk EXCEPT !.pc = "bureauLog", !.prev = members[tk.id].status]]
     ELSE /\ members' = members
          /\ tasks' = [tasks EXCEPT ![t].pc = "conflictRead"]
  /\ UNCHANGED <<nextId, history, nextHistId, now, settings>>

\* meta.changes === 0: SELECT id, first_name, last_name FROM members WHERE
\* status = ? AND id != ?  (.first(): any one row when several match)
UpdateConflictRead(t) ==
  LET tk == tasks[t]
      hs == Holders(members, tk.body.status, tk.id)
  IN
  /\ tk.kind = "update" /\ tk.pc = "conflictRead"
  /\ IF hs = {}
     THEN tasks' = [tasks EXCEPT ![t] = Done(tk, Res("not_found"))]
     ELSE \E h \in hs :
            tasks' = [tasks EXCEPT ![t] =
                        Done(tk, ConflictRes(tk.body.status, members[h]))]
  /\ UNCHANGED <<members, nextId, history, nextHistId, now, settings>>

\* what follows the history insert of handleBureauStatusUpdate, in
\* handleStatusChange and updateMember, up to the next storage statement
AfterBureauLog(tk) ==
  IF ~hasOtherUpdates(tk.body) /\ UpdEmpty(tk.upd)
  THEN LET u == setApprovalDates(tk.body.status, tk.cur, tk.upd) IN
       IF UpdEmpty(u) THEN Done(tk, Res("ok"))
       ELSE [tk EXCEPT !.pc = "approval", !.upd = u]
  ELSE UpdateBeforeFinal(tk)

\* handleBureauStatusUpdate: INSERT INTO membership_history (old = the status
\* read at the start of the request)
UpdateBureauLog(t) ==
  LET tk == tasks[t] IN
  /\ tk.kind = "update" /\ tk.pc = "bureauLog"
  /\ IF HistoryInsertOk(members, tk.id)
     THEN /\ history' = Append(history,
               HistoryEntry(nextHistId, tk.id, tk.cur, tk.body.status,
                            ReasonOrDefault(tk.body.reason), tk.prev))
          /\ nextHistId' = nextHistId + 1
          /\ tasks' = [tasks EXCEPT ![t] = AfterBureauLog(tk)]
     ELSE /\ UNCHANGED <<history, nextHistId>>
          /\ tasks' = [tasks EXCEPT ![t] = Done(tk, Res("failed"))]
  /\ UNCHANGED <<members, nextId, now, settings>>

\* handleStatusChange: UPDATE members SET approved_at, expires_at WHERE id = ?
UpdateApproval(t) ==
  LET tk == tasks[t] IN
  /\ tk.kind = "update" /\ tk.pc = "approval"
  /\ members' = IF tk.id \in DOMAIN members
                THEN [members EXCEPT ![tk.id] = ApplyUpd(@, tk.upd)]
                ELSE members
  /\ tasks' = [tasks EXCEPT ![t] = Done(tk, Res("ok"))]
  /\ UNCHANGED <<nextId, history, nextHistId, now, settings>>

\* (mutation) logStatusChange without its exclusion of the bureau positions
LogsEveryStatusChange(body, currentStatus) ==
  body.status # AbsentStr /\ body.status # currentStatus

\* the condition of logStatusChange
LogsStatusChange(body, currentStatus) ==
  /\ body.status # AbsentStr
  /\ body.status # currentStatus
  /\ body.status \notin BUREAU_POSITIONS

\* updateMember: UPDATE members SET <updates>, updated_at WHERE id = ?
UpdateFinal(t) ==
  LET tk == tasks[t] IN
  /\ tk.kind = "update" /\ tk.pc = "final"
  /\ IF UpdateFails(members, tk.id, tk.upd)
     THEN /\ members' = members
          /\ tasks' = [tasks EXCEPT ![t] = Done(tk, Res("failed"))]
     ELSE /\ members' = IF tk.id \in DOMAIN members
                        THEN [members EXCEPT ![tk.id] = ApplyUpd(@, tk.upd)]
                        ELSE members
          /\ tasks' = [tasks EXCEPT ![t] =
               LET tk2 == IF tk.upd.status # AbsentStr /\ tk.id \in DOMAIN members
                          THEN [tk EXCEPT !.prev = members[tk.id].status]
                          ELSE tk
               IN IF LogsStatusChange(tk.body, tk.cur)
                  THEN [tk2 EXCEPT !.pc = "log"]
                  ELSE Done(tk2, Res("ok"))]
  /\ UNCHANGED <<nextId, history, nextHistId, now, settings>>

\* logStatusChange: INSERT INTO membership_history
UpdateLog(t) ==
  LET tk == tasks[t] IN
  /\ tk.kind = "update" /\ tk.pc = "log"
  /\ IF HistoryInsertOk(members, tk.id)
     THEN /\ history' = Append(history,
               HistoryEntry(nextHistId, tk.id, tk.cur, tk.body.status,
                            ReasonOrDefault(tk.body.reason), tk.prev))
          /\ nextHistId' = nextHistId + 1
          /\ tasks' = [tasks EXCEPT ![t] = Done(tk, Res("ok"))]
     ELSE /\ UNCHANGED <<history, nextHistId>>
          /\ tasks' = [tasks EXCEPT ![t] = Done(tk, Res("failed"))]
  /\ UNCHANGED <<members, nextId, now, settings>>

\* the steps of an updateMember request after its first
UpdateStep(t) ==
  \/ UpdateCas(t)
  \/ UpdateConflictRead(t)
  \/ UpdateBureauLog(t)
  \/ UpdateApproval(t)
  \/ UpdateFinal(t)
  \/ UpdateLog(t)

-----------------------------------------------------------------------------
(* deleteMember: DELETE /api/admin/members/:id *)

\* DELETE FROM members WHERE id = ?  (with the cascade of the schema)
DeleteStart(t, ids) ==
  /\ Admitted(t, "delete")
  /\ \E id \in ids :
       LET tk == [AdminTask(t) EXCEPT !.kind = "delete", !.id = id,
                                  !.m0 = members, !.h0 = history]
       IN IF id \in DOMAIN members
          THEN /\ members' = [i \in DOMAIN members \ {id} |-> members[i]]
               /\ history' = CascadeDelete(history, id)
               /\ tasks' = [tasks EXCEPT ![t] = Done(tk, Res("ok"))]
          ELSE /\ UNCHANGED <<members, history>>
               /\ tasks' = [tasks EXCEPT ![t] = Done(tk, Res("not_found"))]
  /\ UNCHANGED <<nextId, nextHistId, now, settings>>

-----------------------------------------------------------------------------
(* batchUpdateMembers: POST /api/admin/members/batch *)

\* `reason || 'Batch update by admin'`
BatchReason(r) ==
  IF r = AbsentStr \/ r = NullStr \/ r = "" THEN "Batch update by admin" ELSE r

\* UPDATE members SET status = ?, updated_at[, approved_at, expires_at]
\* WHERE id IN (...), on one row
BatchRow(row, status) ==
  IF status = "active"
  THEN [row EXCEPT !.status = status, !.approved_at = NowStamp,
                   !.expires_at = ExpiryDate(now)]
  ELSE [row EXCEPT !.status = status]

Range(seq) == {seq[i] : i \in 1..Len(seq)}

\* (mutation) a batch that also accepts president
BatchStatusesWithPresident == {"active", "rejected", "expired", "president"}

\* the statuses a batch accepts
BatchStatuses == {"active", "rejected", "expired"}

\* the checks of the body, then the UPDATE of all listed rows
BatchStart(t, menu) ==
  /\ Admitted(t, "batch")
  /\ \E req \in menu :
       LET tk == [AdminTask(t) EXCEPT !.kind = "batch", !.ids = req.memberIds,
                                  !.status = req.status, !.reason = req.reason,
                                  !.m0 = members, !.h0 = history]
       IN IF req.memberIds = <<>>
          THEN /\ members' = members
               /\ tasks' = [tasks EXCEPT ![t] = Done(tk, Res("no_members"))]
          ELSE IF req.status \notin BatchStatuses
          THEN /\ members' = members
               /\ tasks' = [tasks EXCEPT ![t] = Done(tk, Res("invalid_status"))]
          ELSE /\ members' = [i \in DOMAIN members |->
                                IF i \in Range(req.memberIds)
                                THEN BatchRow(members[i], req.status)
                                ELSE members[i]]
               /\ tasks' = [tasks EXCEPT ![t] = [tk EXCEPT !.pc = "batchLog", !.k = 1]]
  /\ UNCHANGED <<nextId, history, nextHistId, now, settings>>

\* the loop `for (const id of memberIds)`: INSERT INTO membership_history
\* (member_id, new_status, reason); old_status is left NULL
BatchLog(t) ==
  LET tk == tasks[t]
      id == tk.ids[tk.k]
  IN
  /\ tk.kind = "batch" /\ tk.pc = "batchLog"
  /\ IF HistoryInsertOk(members, id)
     THEN /\ history' = Append(history,
               HistoryEntry(nextHistId, id, NullStr, tk.status, BatchReason(tk.reason),
                            IF id \in DOMAIN tk.m0 THEN tk.m0[id].status ELSE NullStr))
          /\ nextHistId' = nextHistId + 1
          /\ tasks' = [tasks EXCEPT ![t] =
               IF tk.k = Len(tk.ids) THEN Done(tk, Res("ok"))
               ELSE [tk EXCEPT !.k = tk.k + 1]]
     ELSE /\ UNCHANGED <<history, nextHistId>>
          /\ tasks' = [tasks EXCEPT ![t] = Done(tk, Res("failed"))]
  /\ UNCHANGED <<members, nextId, now, settings>>

-----------------------------------------------------------------------------
(* apply: POST /api/apply *)

\* String.prototype.indexOf / lastIndexOf of a character, zero-based, -1
\* when the character does not occur
IndexOf(s, c) ==
  IF \E i \in 1..Len(s) : s[i] = c
  THEN (CHOOSE i \in 1..Len(s) : s[i] = c /\ \A j \in 1..(i - 1) : s[j] # c) - 1
  ELSE -1

LastIndexOf(s, c) ==
  IF \E i \in 1..Len(s) : s[i] = c
  THEN (CHOOSE i \in 1..Len(s) : s[i] = c /\ \A j \in (i + 1)..Len(s) : s[j] # c) - 1
  ELSE -1

MaxEmailLength == 254

isValidEmail(email) ==
  /\ email # Absent /\ email # Null /\ email # <<>>
  /\ Len(email) <= MaxEmailLength
  /\ LET atIndex == IndexOf(email, "@")
         dotIndex == LastIndexOf(email, ".")
     IN /\ atIndex > 0
        /\ dotIndex > atIndex + 1
        /\ dotIndex < Len(email) - 1
        /\ IndexOf(email, " ") = -1

\* `!v?.trim()`
Blank(v) == v = Absent \/ v = Null \/ Trim(v) = <<>>

NoForm ==
  [firstName |-> Absent, lastName |-> Absent, email |-> Absent,
   studentId |-> Absent, enrollmentTrack |-> Absent, phone |-> Absent,
   telegram |-> Absent, discord |-> Absent]

\* (mutation) the validation that stops at the first rule violated
validateApplicationFirstOnly(data) ==
  IF Blank(data.firstName) THEN <<"Le prénom est requis">>
  ELSE IF Blank(data.lastName) THEN <<"Le nom est requis">>
  ELSE IF Blank(data.email) THEN <<"L'email est requis">>
  ELSE IF ~isValidEmail(data.email) THEN <<"L'email est invalide">>
  ELSE IF data.enrollmentTrack \in {Absent, Null, <<>>} THEN <<"Le cursus est requis">>
  ELSE IF Blank(data.phone) /\ Blank(data.telegram) /\ Blank(data.discord)
  THEN <<"Au moins un moyen de contact est requis">>
  ELSE <<>>

validateApplication(data) ==
  (IF Blank(data.firstName) THEN <<"Le prénom est requis">> ELSE <<>>)
  \o (IF Blank(data.lastName) THEN <<"Le nom est requis">> ELSE <<>>)
  \o (IF Blank(data.email) THEN <<"L'email est requis">>
      ELSE IF ~isValidEmail(data.email) THEN <<"L'email est invalide">>
      ELSE <<>>)
  \o (IF data.enrollmentTrack \in {Absent, Null, <<>>}
      THEN <<"Le cursus est requis">> ELSE <<>>)
  \o (IF Blank(data.phone) /\ Blank(data.telegram) /\ Blank(data.discord)
      THEN <<"Au moins un moyen de contact est requis">> ELSE <<>>)

\* `v?.trim() || null` where v may also be undefined
TrimOrNullOpt(v) == IF v = Absent THEN Null ELSE TrimOrNull(v)

\* (mutation) the application stored as an active member
AppliedRowActive(form) ==
  [first_name |-> Trim(form.firstName),
   last_name |-> Trim(form.lastName),
   email |-> Trim(ToLower(form.email)),
   student_id |-> TrimOrNullOpt(form.studentId),
   enrollment_track |-> form.enrollmentTrack,
   phone |-> TrimOrNullOpt(form.phone),
   telegram |-> TrimOrNullOpt(form.telegram),
   discord |-> TrimOrNullOpt(form.discord),
   enrollment_number |-> Null,
   notes |-> Null,
   status |-> "active",
   approved_at |-> NullStr,
   expires_at |-> NullDate]

\* the row INSERTed by apply
AppliedRow(form) ==
  [first_name |-> Trim(form.firstName),
   last_name |-> Trim(form.lastName),
   email |-> Trim(ToLower(form.email)),
   student_id |-> TrimOrNullOpt(form.studentId),
   enrollment_track |-> form.enrollmentTrack,
   phone |-> TrimOrNullOpt(form.phone),
   telegram |-> TrimOrNullOpt(form.telegram),
   discord |-> TrimOrNullOpt(form.discord),
   enrollment_number |-> Null,
   notes |-> Null,
   status |-> "pending",
   approved_at |-> NullStr,
   expires_at |-> NullDate]

\* validateApplication, then SELECT id, status FROM members WHERE email = ?
\* (bound to email.toLowerCase())
ApplyStart(t, menu) ==
  /\ tasks[t].pc = "idle"
  /\ \E form \in menu :
       LET errs == validateApplication(form)
           tk == [IdleTask EXCEPT !.kind = "apply", !.form = form, !.errs = errs,
                                  !.m0 = members, !.h0 = history]
           existing == IF errs = <<>> THEN ByEmail(members, ToLower(form.email)) ELSE {}
       IN tasks' = [tasks EXCEPT ![t] =
            IF errs # <<>> THEN Done(tk, Res("validation"))
            ELSE IF \E i \in existing : members[i].status \in {"pending", "active"}
            THEN Done(tk, Res("duplicate"))
            ELSE [tk EXCEPT !.pc = "insert"]]
  /\ UNCHANGED <<members, nextId, history, nextHistId, now, settings>>

\* INSERT INTO members (..., status) VALUES (..., 'pending'); email is UNIQUE
ApplyInsert(t) ==
  LET tk == tasks[t]
      row == AppliedRow(tk.form)
  IN
  /\ tk.kind = "apply" /\ tk.pc = "insert"
  /\ IF ByEmail(members, row.email) # {}
     THEN /\ UNCHANGED <<members, nextId>>
          /\ tasks' = [tasks EXCEPT ![t] = Done(tk, Res("failed"))]
     ELSE /\ nextId <= MaxId
          /\ members' = [i \in DOMAIN members \cup {nextId} |->
                           IF i = nextId THEN row ELSE members[i]]
          /\ nextId' = nextId + 1
          /\ tasks' = [tasks EXCEPT ![t] = [tk EXCEPT !.pc = "applyLog", !.id = nextId]]
  /\ UNCHANGED <<history, nextHistId, now, settings>>

\* INSERT INTO membership_history (member_id, new_status, reason)
\* VALUES (last_row_id, 'pending', 'Application submitted')
ApplyLog(t) ==
  LET tk == tasks[t] IN
  /\ tk.kind = "apply" /\ tk.pc = "applyLog"
  /\ IF HistoryInsertOk(members, tk.id)
     THEN /\ history' = Append(history,
               HistoryEntry(nextHistId, tk.id, NullStr, "pending",
                            "Application submitted", NullStr))
          /\ nextHistId' = nextHistId + 1
          /\ tasks' = [tasks EXCEPT ![t] = Done(tk, Res("ok"))]
     ELSE /\ UNCHANGED <<history, nextHistId>>
          /\ tasks' = [tasks EXCEPT ![t] = Done(tk, Res("failed"))]
  /\ UNCHANGED <<members, nextId, now, settings>>

-----------------------------------------------------------------------------
(* importCSV: POST /api/admin/import -- parsing *)

\* String.prototype.split: the pieces of s between the occurrences of sep
Split(s, sep) ==
  LET at == {i \in 1..Len(s) : s[i] = sep}
      \* the position of the k-th separator; 0 and Len(s) + 1 bracket them
      cut(k) == IF k = 0 THEN 0
                ELSE IF k > Cardinality(at) THEN Len(s) + 1
                ELSE CHOOSE i \in at : Cardinality({j \in at : j < i}) = k - 1
  IN [k \in 1..(Cardinality(at) + 1) |-> SubSeq(s, cut(k - 1) + 1, cut(k) - 1)]

\* the loop of parseCSVLine over the characters left; st = [values, current,
\* inQuotes]
RECURSIVE parseCSVChars(_, _)
parseCSVChars(line, st) ==
  IF line = <<>> THEN Append(st.values, Trim(st.current))
  ELSE LET char == Head(line) IN
       parseCSVChars(Tail(line),
         IF char = "\"" THEN [st EXCEPT !.inQuotes = ~st.inQuotes]
         ELSE IF char \in {",", "\t", ";"} /\ ~st.inQuotes
         THEN [st EXCEPT !.values = Append(st.values, Trim(st.current)),
                         !.current = <<>>]
         ELSE [st EXCEPT !.current = Append(st.current, char)])

parseCSVLine(line) ==
  parseCSVChars(line, [values |-> <<>>, current |-> <<>>, inQuotes |-> FALSE])

\* what the object literal `mappings` inherits under the keys 'constructor'
\* and '__proto__': the function Object and the object Object.prototype,
\* both truthy and neither a string
ObjectFunction == "FUNCTION_OBJECT"

ObjectPrototype == "OBJECT_PROTOTYPE"

\* the own keys of `mappings`
MappingKeys ==
  {<<"m", "e", "m", "b", "r", "e", " ", "a", "c", "t", "i", "f">>,
   <<"a", "c", "t", "i", "f">>,
   <<"m", "e", "m", "b", "r", "e", " ", "d", "'", "h", "o", "n", "n", "e", "u", "r">>,
   <<"h", "o", "n", "n", "e", "u", "r">>,
   <<"s", "e", "c", "r", "é", "t", "a", "i", "r", "e">>,
   <<"s", "e", "c", "r", "e", "t", "a", "i", "r", "e">>,
   <<"t", "r", "é", "s", "o", "r", "i", "e", "r">>,
   <<"t", "r", "e", "s", "o", "r", "i", "e", "r">>,
   <<"p", "r", "é", "s", "i", "d", "e", "n", "t">>,
   <<"p", "r", "e", "s", "i", "d", "e", "n", "t">>,
   <<"p", "r", "é", "s", "i", "d", "e", "n", "t", " ", "d", "'", "h", "o", "n", "n", "e", "u", "r">>,
   <<"p", "r", "e", "s", "i", "d", "e", "n", "t", " ", "d", "'", "h", "o", "n", "n", "e", "u", "r">>,
   <<"v", "i", "c", "e", "-", "p", "r", "é", "s", "i", "d", "e", "n", "t">>,
   <<"v", "i", "c", "e", "-", "p", "r", "e", "s", "i", "d", "e", "n", "t">>,
   <<"v", "i", "c", "e", " ", "p", "r", "é", "s", "i", "d", "e", "n", "t">>,
   <<"v", "i", "c", "e", " ", "p", "r", "e", "s", "i", "d", "e", "n", "t">>,
   <<"e", "n", " ", "a", "t", "t", "e", "n", "t", "e">>,
   <<"p", "e", "n", "d", "i", "n", "g">>,
   <<"r", "e", "f", "u", "s", "é">>,
   <<"r", "e", "f", "u", "s", "e">>,
   <<"r", "e", "j", "e", "c", "t", "e", "d">>,
   <<"e", "x", "p", "i", "r", "é">>,
   <<"e", "x", "p", "i", "r", "e">>,
   <<"e", "x", "p", "i", "r", "e", "d">>}

\* the lookup `mappings[normalized]`: the own keys of the table, the two
\* lower-case keys every object inherits, and AbsentStr (undefined) otherwise
StatusMappings(normalized) ==
  CASE normalized = <<"m", "e", "m", "b", "r", "e", " ", "a", "c", "t", "i", "f">> -> "active"
    [] normalized = <<"a", "c", "t", "i", "f">> -> "active"
    [] normalized = <<"m", "e", "m", "b", "r", "e", " ", "d", "'", "h", "o", "n", "n", "e", "u", "r">> -> "honor"
    [] normalized = <<"h", "o", "n", "n", "e", "u", "r">> -> "honor"
    [] normalized = <<"s", "e", "c", "r", "é", "t", "a", "i", "r", "e">> -> "secretary"
    [] normalized = <<"s", "e", "c", "r", "e", "t", "a", "i", "r", "e">> -> "secretary"
    [] normalized = <<"t", "r", "é", "s", "o", "r", "i", "e", "r">> -> "treasurer"
    [] normalized = <<"t", "r", "e", "s", "o", "r", "i", "e", "r">> -> "treasurer"
    [] normalized = <<"p", "r", "é", "s", "i", "d", "e", "n", "t">> -> "president"
    [] normalized = <<"p", "r", "e", "s", "i", "d", "e", "n", "t">> -> "president"
    [] normalized = <<"p", "r", "é", "s", "i", "d", "e", "n", "t", " ", "d", "'", "h", "o", "n", "n", "e", "u", "r">> -> "honorary_president"
    [] normalized = <<"p", "r", "e", "s", "i", "d", "e", "n", "t", " ", "d", "'", "h", "o", "n", "n", "e", "u", "r">> -> "honorary_president"
    [] normalized = <<"v", "i", "c", "e", "-", "p", "r", "é", "s", "i", "d", "e", "n", "t">> -> "vice_president"
    [] normalized = <<"v", "i", "c", "e", "-", "p", "r", "e", "s", "i", "d", "e", "n", "t">> -> "vice_president"
    [] normalized = <<"v", "i", "c", "e", " ", "p", "r", "é", "s", "i", "d", "e", "n", "t">> -> "vice_president"
    [] normalized = <<"v", "i", "c", "e", " ", "p", "r", "e", "s", "i", "d", "e", "n", "t">> -> "vice_president"
    [] normalized = <<"e", "n", " ", "a", "t", "t", "e", "n", "t", "e">> -> "pending"
    [] normalized = <<"p", "e", "n", "d", "i", "n", "g">> -> "pending"
    [] normalized = <<"r", "e", "f", "u", "s", "é">> -> "rejected"
    [] normalized = <<"r", "e", "f", "u", "s", "e">> -> "rejected"
    [] normalized = <<"r", "e", "j", "e", "c", "t", "e", "d">> -> "rejected"
    [] normalized = <<"e", "x", "p", "i", "r", "é">> -> "expired"
    [] normalized = <<"e", "x", "p", "i", "r", "e">> -> "expired"
    [] normalized = <<"e", "x", "p", "i", "r", "e", "d">> -> "expired"
    [] normalized = <<"c", "o", "n", "s", "t", "r", "u", "c", "t", "o", "r">> -> ObjectFunction
    [] normalized = <<"_", "_", "p", "r", "o", "t", "o", "_", "_">> -> ObjectPrototype
    [] OTHER -> AbsentStr

mapStatusFromLabel(label) ==
  IF label = Null \/ label = Absent \/ label = <<>> THEN "active"
  ELSE LET mapped == StatusMappings(Trim(ToLower(label))) IN
       IF mapped = AbsentStr THEN "active" ELSE mapped

ImportFields ==
  <<"firstName", "lastName", "email", "phone", "studentId", "enrollmentNumber",
    "enrollmentTrack", "status">>

HEADER_MAPPINGS(field) ==
  CASE field = "firstName" ->
         {<<"p", "r", "é", "n", "o", "m">>,
          <<"p", "r", "e", "n", "o", "m">>,
          <<"f", "i", "r", "s", "t", "n", "a", "m", "e">>}
    [] field = "lastName" ->
         {<<"n", "o", "m">>,
          <<"l", "a", "s", "t", "n", "a", "m", "e">>}
    [] field = "email" ->
         {<<"e", "m", "a", "i", "l">>,
          <<"m", "a", "i", "l">>}
    [] field = "phone" ->
         {<<"t", "é", "l", "é", "p", "h", "o", "n", "e">>,
          <<"t", "e", "l", "e", "p", "h", "o", "n", "e">>,
          <<"p", "h", "o", "n", "e">>,
          <<"t", "e", "l">>}
    [] field = "studentId" ->
         {<<"n", "u", "m", "é", "r", "o", " ", "é", "t", "u", "d", "i", "a", "n", "t">>,
          <<"n", "u", "m", "e", "r", "o", " ", "e", "t", "u", "d", "i", "a", "n", "t">>,
          <<"n", "°", " ", "é", "t", "u", "d", "i", "a", "n", "t">>,
          <<"s", "t", "u", "d", "e", "n", "t", "_", "i", "d">>,
          <<"n", "u", "m", "é", "r", "o">>,
          <<"n", "u", "m", "e", "r", "o">>}
    [] field = "enrollmentNumber" ->
         {<<"e", "n", "r", "o", "l", "l", "m", "e", "n", "t", "_", "n", "u", "m", "b", "e", "r">>}
    [] field = "enrollmentTrack" ->
         {<<"f", "i", "l", "i", "è", "r", "e", " ", "d", "'", "i", "n", "s", "c", "r", "i", "p", "t", "i", "o", "n">>,
          <<"f", "i", "l", "i", "e", "r", "e">>,
          <<"t", "r", "a", "c", "k">>,
          <<"e", "n", "r", "o", "l", "l", "m", "e", "n", "t", "_", "t", "r", "a", "c", "k">>,
          <<"c", "u", "r", "s", "u", "s">>}
    [] field = "status" ->
         {<<"s", "t", "a", "t", "u", "t">>,
          <<"s", "t", "a", "t", "u", "s">>}

\* the first field, in the order of HEADER_MAPPINGS, whose aliases include h;
\* "" when none does
HeaderField(h) ==
  LET hits == {i \in 1..Len(ImportFields) : h \in HEADER_MAPPINGS(ImportFields[i])}
  IN IF hits = {} THEN ""
     ELSE ImportFields[CHOOSE i \in hits : \A j \in hits : i <= j]

\* parseCSVHeaders: field -> zero-based column, -1 for a field with no column
\* (a later column of the same field replaces an earlier one)
parseCSVHeaders(rawHeaders) ==
  LET col(f) ==
        LET cols == {i \in 1..Len(rawHeaders) :
                       HeaderField(Trim(ToLower(rawHeaders[i]))) = f}
        IN IF cols = {} THEN -1
           ELSE (CHOOSE i \in cols : \A j \in cols : i >= j) - 1
  IN [firstName |-> col("firstName"), lastName |-> col("lastName"),
      email |-> col("email"), phone |-> col("phone"),
      studentId |-> col("studentId"),
      enrollmentNumber |-> col("enrollmentNumber"),
      enrollmentTrack |-> col("enrollmentTrack"), status |-> col("status")]

\* values[col]?.trim(): undefined past the end of the row, and at the
\* `undefined` index of a column the header does not have
Cell(values, col) ==
  IF col >= 0 /\ col + 1 <= Len(values) THEN Trim(values[col + 1]) ELSE Absent

\* `headerMap.f === undefined ? dflt : values[headerMap.f]?.trim()`
OptCell(values, col, dflt) == IF col = -1 THEN dflt ELSE Cell(values, col)

extractMemberFromRow(values, headerMap) ==
  [firstName |-> Cell(values, headerMap["firstName"]),
   lastName |-> Cell(values, headerMap["lastName"]),
   email |-> LET e == Cell(values, headerMap["email"])
             IN IF e = Absent THEN Absent ELSE Trim(ToLower(e)),
   phone |-> OptCell(values, headerMap["phone"], Null),
   studentId |-> OptCell(values, headerMap["studentId"], Null),
   enrollmentNumber |-> OptCell(values, headerMap["enrollmentNumber"], Null),
   enrollmentTrack |-> OptCell(values, headerMap["enrollmentTrack"], <<"A", "u", "t", "r", "e">>),
   status |-> mapStatusFromLabel(OptCell(values, headerMap["status"], Null))]

-----------------------------------------------------------------------------
(* importCSV: POST /api/admin/import -- the request *)

\* a row-level error message `Row ${rowIndex}: ...`
RowError(rowIndex, text, role, first, last) ==
  [row |-> rowIndex, text |-> text, role |-> role, first_name |-> first, last_name |-> last]

NoStats == [imported |-> 0, updated |-> 0, skipped |-> 0, errors |-> <<>>]

\* (mutation) the error recorded without counting the row
SkipUncounted(stats, err) == [stats EXCEPT !.errors = Append(@, err)]

\* stats.errors.push(...); stats.skipped++
Skip(stats, err) ==
  [stats EXCEPT !.skipped = @ + 1, !.errors = Append(@, err)]

\* (mutation) validateImportRow without the check against the holders in
\* storage
validateImportRowNoHolders(member, rowIndex, inImport, bmap, stats) ==
  LET refuse(err) == [ok |-> FALSE, inImport |-> inImport, stats |-> Skip(stats, err)] IN
  IF member.firstName \in {Absent, <<>>} \/ member.lastName \in {Absent, <<>>}
     \/ member.email \in {Absent, <<>>}
  THEN refuse(RowError(rowIndex, "Missing required fields", "", <<>>, <<>>))
  ELSE IF ~isValidEmail(member.email)
  THEN refuse(RowError(rowIndex, "Invalid email format", "", <<>>, <<>>))
  ELSE IF member.status \in BUREAU_POSITIONS
  THEN IF inImport[member.status] # <<>>
       THEN refuse(RowError(rowIndex, "already assigned in this import",
                            STATUS_LABELS(member.status), <<>>, <<>>))
       ELSE [ok |-> TRUE, inImport |-> [inImport EXCEPT ![member.status] = member.email],
             stats |-> stats]
  ELSE [ok |-> TRUE, inImport |-> inImport, stats |-> stats]

\* (mutation) validateImportRow without the table of roles claimed in this
\* import
validateImportRowNoClaims(member, rowIndex, inImport, bmap, stats) ==
  LET refuse(err) == [ok |-> FALSE, inImport |-> inImport, stats |-> Skip(stats, err)] IN
  IF member.firstName \in {Absent, <<>>} \/ member.lastName \in {Absent, <<>>}
     \/ member.email \in {Absent, <<>>}
  THEN refuse(RowError(rowIndex, "Missing required fields", "", <<>>, <<>>))
  ELSE IF ~isValidEmail(member.email)
  THEN refuse(RowError(rowIndex, "Invalid email format", "", <<>>, <<>>))
  ELSE IF member.status \in DOMAIN bmap /\ bmap[member.status].email # member.email
  THEN refuse(RowError(rowIndex, "already held by", STATUS_LABELS(member.status),
                       bmap[member.status].first_name, bmap[member.status].last_name))
  ELSE [ok |-> TRUE, inImport |-> inImport, stats |-> stats]

\* validateImportRow: whether the row goes on to storage, with the claim table
\* and the counters it leaves.  inImport[r] is <<>> while r is unclaimed.
validateImportRow(member, rowIndex, inImport, bmap, stats) ==
  LET refuse(err) == [ok |-> FALSE, inImport |-> inImport, stats |-> Skip(stats, err)] IN
  IF member.firstName \in {Absent, <<>>} \/ member.lastName \in {Absent, <<>>}
     \/ member.email \in {Absent, <<>>}
  THEN refuse(RowError(rowIndex, "Missing required fields", "", <<>>, <<>>))
  ELSE IF ~isValidEmail(member.email)
  THEN refuse(RowError(rowIndex, "Invalid email format", "", <<>>, <<>>))
  ELSE IF member.status \in BUREAU_POSITIONS
  THEN IF inImport[member.status] # <<>>
       THEN refuse(RowError(rowIndex, "already assigned in this import",
                            STATUS_LABELS(member.status), <<>>, <<>>))
       ELSE IF member.status \in DOMAIN bmap /\ bmap[member.status].email # member.email
       THEN refuse(RowError(rowIndex, "already held by", STATUS_LABELS(member.status),
                            bmap[member.status].first_name, bmap[member.status].last_name))
       ELSE [ok |-> TRUE, inImport |-> [inImport EXCEPT ![member.status] = member.email],
             stats |-> stats]
  ELSE [ok |-> TRUE, inImport |-> inImport, stats |-> stats]

\* (mutation) the data lines numbered from 1, the header not counted
ImportRowsFromOne(lines, headerMap) ==
  LET all == [i \in 1..(Len(lines) - 1) |-> [index |-> i, line |-> Trim(lines[i + 1])]]
      nonBlank(r) == r.line # <<>>
      kept == SelectSeq(all, nonBlank)
  IN [k \in 1..Len(kept) |->
        [index |-> kept[k].index,
         member |-> extractMemberFromRow(parseCSVLine(kept[k].line), headerMap)]]

\* the data lines of the CSV that are not blank, each with the number the
\* loop reports it under (i + 1 for lines[i], the header being lines[0])
ImportRows(lines, headerMap) ==
  LET all == [i \in 1..(Len(lines) - 1) |-> [index |-> i + 1, line |-> Trim(lines[i + 1])]]
      nonBlank(r) == r.line # <<>>
      kept == SelectSeq(all, nonBlank)
  IN [k \in 1..Len(kept) |->
        [index |-> kept[k].index,
         member |-> extractMemberFromRow(parseCSVLine(kept[k].line), headerMap)]]

\* errors.slice(0, 10)
MaxErrors == 10

\* the response of importCSV: the counts, their total, and the first
\* MaxErrors error messages (`undefined`, here <<>>, when there is none)
ImportRes(stats) ==
  [code |-> "ok", role |-> "", first_name |-> <<>>, last_name |-> <<>>,
   stats |-> [imported |-> stats.imported, updated |-> stats.updated,
              skipped |-> stats.skipped,
              total |-> stats.imported + stats.updated + stats.skipped],
   errors |-> IF Len(stats.errors) > MaxErrors
              THEN SubSeq(stats.errors, 1, MaxErrors)
              ELSE stats.errors]

\* the loop of importCSV from row k up to the next storage statement: rows
\* that fail validateImportRow are skipped; after the last row the response is
\* built
RECURSIVE ImportAdvance(_)
ImportAdvance(tk) ==
  IF tk.k > Len(tk.rows) THEN Done(tk, ImportRes(tk.stats))
  ELSE LET r == tk.rows[tk.k]
           v == validateImportRow(r.member, r.index, tk.inImport, tk.bmap, tk.stats)
       IN IF v.ok THEN [tk EXCEPT !.pc = "lookup", !.inImport = v.inImport]
          ELSE ImportAdvance([tk EXCEPT !.k = @ + 1, !.stats = v.stats])

\* the results of the pre-load SELECT folded into bureauMap: one holder per
\* held role (which one, when a role has several rows, depends on the order
\* the rows come back in)
BureauMaps(m) ==
  LET held == {r \in BUREAU_POSITIONS : Holders(m, r, 0) # {}} IN
  {[r \in held |-> [first_name |-> m[pick[r]].first_name,
                    last_name |-> m[pick[r]].last_name,
                    email |-> m[pick[r]].email]] :
     pick \in {f \in [held -> DOMAIN m] : \A r \in held : f[r] \in Holders(m, r, 0)}}

MissingColumnsNoEmail(headerMap) ==
  headerMap["firstName"] = -1 \/ headerMap["lastName"] = -1

\* headerMap.firstName === undefined || headerMap.lastName === undefined
\* || headerMap.email === undefined
MissingColumns(headerMap) ==
  headerMap["firstName"] = -1 \/ headerMap["lastName"] = -1
  \/ headerMap["email"] = -1

\* the checks of the body and of the header, then SELECT status, first_name,
\* last_name, email FROM members WHERE status IN (bureau positions)
ImportStart(t, menu) ==
  /\ Admitted(t, "import")
  /\ \E csvData \in menu :
     \E lines \in {Split(Trim(csvData), "\n")} :
     \E headerMap \in {parseCSVHeaders(parseCSVLine(lines[1]))} :
       LET tk == [AdminTask(t) EXCEPT !.kind = "import", !.m0 = members, !.h0 = history,
                                  !.csv = csvData, !.stats = NoStats,
                                  !.inImport = [r \in BUREAU_POSITIONS |-> <<>>]]
       IN IF csvData \in {Absent, Null, <<>>}
          THEN tasks' = [tasks EXCEPT ![t] = Done(tk, Res("csv_required"))]
          ELSE IF Len(lines) < 2
          THEN tasks' = [tasks EXCEPT ![t] = Done(tk, Res("too_short"))]
          ELSE IF MissingColumns(headerMap)
          THEN tasks' = [tasks EXCEPT ![t] = Done(tk, Res("missing_columns"))]
          ELSE \E rows \in {ImportRows(lines, headerMap)} :
               \E bmap \in BureauMaps(members) :
                 tasks' = [tasks EXCEPT ![t] =
                   ImportAdvance([tk EXCEPT !.rows = rows, !.bmap = bmap, !.k = 1])]
  /\ UNCHANGED <<members, nextId, history, nextHistId, now, settings>>

\* importOrUpdateMember: SELECT id FROM members WHERE email = ?
ImportLookup(t) ==
  LET tk == tasks[t]
      hits == ByEmail(members, tk.rows[tk.k].member.email)
  IN
  /\ tk.kind = "import" /\ tk.pc = "lookup"
  /\ tasks' = [tasks EXCEPT ![t] =
       [tk EXCEPT !.pc = "write",
                  !.found = IF hits = {} THEN 0 ELSE CHOOSE i \in hits : TRUE]]
  /\ UNCHANGED <<members, nextId, history, nextHistId, now, settings>>

\* a bound value that is undefined (a row shorter than the header), or a
\* status that is no string, is refused by the storage binding, which throws
BindFails(member) ==
  \/ Absent \in {member.phone, member.studentId, member.enrollmentNumber,
                 member.enrollmentTrack}
  \/ member.status \in {ObjectFunction, ObjectPrototype}

\* COALESCE(?, column)
Coalesce(v, stored) == IF v = Null THEN stored ELSE v

\* the UPDATE of importOrUpdateMember, on the row it matches
ImportUpdatedRow(row, member) ==
  [row EXCEPT
     !.first_name = member.firstName,
     !.last_name = member.lastName,
     !.phone = Coalesce(member.phone, @),
     !.student_id = Coalesce(member.studentId, @),
     !.enrollment_number = Coalesce(member.enrollmentNumber, @),
     !.enrollment_track = Coalesce(member.enrollmentTrack, @),
     !.status = member.status]

\* the row INSERTed by importOrUpdateMember
ImportedRow(member) ==
  [first_name |-> member.firstName,
   last_name |-> member.lastName,
   email |-> member.email,
   student_id |-> member.studentId,
   enrollment_track |-> member.enrollmentTrack,
   phone |-> member.phone,
   telegram |-> Null,
   discord |-> Null,
   enrollment_number |-> member.enrollmentNumber,
   notes |-> Null,
   status |-> member.status,
   approved_at |-> IF member.status = "pending" THEN NullStr ELSE NowStamp,
   expires_at |-> IF member.status \notin {"pending", "rejected"}
                  THEN ExpiryDate(now) ELSE NullDate]

\* (mutation) a failed row write that ends the import
ImportRowAborts(tk) == Done(tk, Res("failed"))

\* the catch of the row loop: the row is reported and counted as skipped
ImportRowFailed(tk) ==
  ImportAdvance([tk EXCEPT
    !.k = @ + 1,
    !.stats = Skip(@, RowError(tk.rows[tk.k].index, "storage error", "", <<>>, <<>>))])

\* importOrUpdateMember: the UPDATE of the row found, or the INSERT
ImportWrite(t) ==
  LET tk == tasks[t]
      member == tk.rows[tk.k].member
  IN
  /\ tk.kind = "import" /\ tk.pc = "write"
  /\ IF BindFails(member)
     THEN /\ UNCHANGED <<members, nextId>>
          /\ tasks' = [tasks EXCEPT ![t] = ImportRowFailed(tk)]
     ELSE IF tk.found # 0
     THEN /\ members' = IF tk.found \in DOMAIN members
                        THEN [members EXCEPT ![tk.found] = ImportUpdatedRow(@, member)]
                        ELSE members
          /\ nextId' = nextId
          /\ tasks' = [tasks EXCEPT ![t] =
               ImportAdvance([tk EXCEPT !.k = @ + 1, !.stats.updated = @ + 1])]
     ELSE IF ByEmail(members, member.email) # {}
     THEN /\ UNCHANGED <<members, nextId>>
          /\ tasks' = [tasks EXCEPT ![t] = ImportRowFailed(tk)]
     ELSE /\ nextId <= MaxId
          /\ members' = [i \in DOMAIN members \cup {nextId} |->
                           IF i = nextId THEN ImportedRow(member) ELSE members[i]]
          /\ nextId' = nextId + 1
          /\ tasks' = [tasks EXCEPT ![t] =
               ImportAdvance([tk EXCEPT !.k = @ + 1, !.stats.imported = @ + 1])]
  /\ UNCHANGED <<history, nextHistId, now, settings>>

-----------------------------------------------------------------------------
(* Router: add and handle *)

\* MAX_BODY_SIZE, in bytes
MAX_BODY_SIZE == 1048576

\* the characters \w stands for, among those the paths here are written in
WordChars ==
  {"a", "b", "c", "d", "e", "f", "g", "h", "i", "j", "k", "l", "m", "n", "o",
   "p", "q", "r", "s", "t", "u", "v", "w", "x", "y", "z", "0", "1", "2", "3",
   "4", "5", "6", "7", "8", "9", "_"}

\* the length of the longest run of characters of s from position j on that
\* satisfy Keep
RECURSIVE RunLength(_, _, _)
RunLength(s, j, stop) ==
  IF j > Len(s) \/ s[j] \in stop THEN 0 ELSE 1 + RunLength(s, j + 1, stop)

RECURSIVE WordRun(_, _)
WordRun(s, j) ==
  IF j > Len(s) \/ s[j] \notin WordChars THEN 0 ELSE 1 + WordRun(s, j + 1)

\* Router.add: the pattern of a path, as the sequence of what its regular
\* expression matches: a character, or a group `(?<name>[^/]+)` for `:name`.
\* The paths registered hold no character that is special in a regular
\* expression.
RECURSIVE RoutePattern(_, _)
RoutePattern(path, j) ==
  IF j > Len(path) THEN <<>>
  ELSE IF path[j] = ":" /\ WordRun(path, j + 1) > 0
  THEN <<[type |-> "param", name |-> SubSeq(path, j + 1, j + WordRun(path, j + 1)),
          c |-> ""]>>
       \o RoutePattern(path, j + 1 + WordRun(path, j + 1))
  ELSE <<[type |-> "char", name |-> <<>>, c |-> path[j]]>> \o RoutePattern(path, j + 1)

NoMatch == [ok |-> FALSE, groups |-> <<>>]

\* path.match(route.pattern), the pattern anchored at both ends: the groups
\* of the match, a group taking as many characters as the rest allows
RECURSIVE MatchFrom(_, _, _, _), MatchGroup(_, _, _, _, _)
MatchFrom(pattern, i, s, j) ==
  IF i > Len(pattern)
  THEN IF j > Len(s) THEN [ok |-> TRUE, groups |-> <<>>] ELSE NoMatch
  ELSE IF pattern[i].type = "char"
  THEN IF j <= Len(s) /\ s[j] = pattern[i].c
       THEN MatchFrom(pattern, i + 1, s, j + 1)
       ELSE NoMatch
  ELSE MatchGroup(pattern, i, s, j, RunLength(s, j, {"/"}))

MatchGroup(pattern, i, s, j, n) ==
  IF n < 1 THEN NoMatch
  ELSE IF MatchFrom(pattern, i + 1, s, j + n).ok
  THEN [ok |-> TRUE,
        groups |-> <<[name |-> pattern[i].name, value |-> SubSeq(s, j, j + n - 1)]>>
                   \o MatchFrom(pattern, i + 1, s, j + n).groups]
  ELSE MatchGroup(pattern, i, s, j, n - 1)

\* String.prototype.toUpperCase
UpperChar(c) ==
  LET ups == {u \in {"A", "B", "C", "D", "E", "F", "G", "H", "I", "J", "K", "L", "M",
                     "N", "O", "P", "Q", "R", "S", "T", "U", "V", "W", "X", "Y", "Z",
                     "É"} : LowerChar(u) = c}
  IN IF ups = {} THEN c ELSE CHOOSE u \in ups : TRUE

ToUpper(s) == [i \in 1..Len(s) |-> UpperChar(s[i])]

\* Router.add: the route pushed
Route(method, path, handler) ==
  [method |-> ToUpper(method), pattern |-> RoutePattern(path, 1), handler |-> handler]

\* new Router(basePath, options): a trailing slash of the base path removed
NewRouter(basePath, maxBodySize, routes) ==
  [basePath |-> IF basePath # <<>> /\ basePath[Len(basePath)] = "/"
                THEN SubSeq(basePath, 1, Len(basePath) - 1) ELSE basePath,
   maxBodySize |-> IF maxBodySize = 0 THEN MAX_BODY_SIZE ELSE maxBodySize,
   routes |-> [k \in 1..Len(routes) |->
                 Route(routes[k].method, routes[k].path, routes[k].handler)]]

\* the base path stripped from the path if the path starts with it
StripBase(basePath, path) ==
  IF basePath # <<>> /\ StartsWith(path, basePath)
  THEN IF Len(path) = Len(basePath) THEN <<"/">>
       ELSE SubSeq(path, Len(basePath) + 1, Len(path))
  ELSE path

\* the last of the routes with the indexes S
LastOf(S) == CHOOSE k \in S : \A j \in S : j <= k

\* the first of the routes with the indexes S
FirstOf(S) == CHOOSE k \in S : \A j \in S : k <= j

\* (mutation) Router.handle taking the last matching route
RouterHandleLast(router, request) ==
  LET method == ToUpper(request.method)
      path == StripBase(router.basePath, request.path)
      matching == {k \in 1..Len(router.routes) :
                     /\ router.routes[k].method \in {method, <<"A", "L", "L">>}
                     /\ MatchFrom(router.routes[k].pattern, 1, path, 1).ok}
  IN IF /\ method \in {<<"P", "O", "S", "T">>, <<"P", "U", "T">>}
        /\ request.contentLength # -1
        /\ request.contentLength > router.maxBodySize
     THEN [code |-> "too_large", route |-> 0, handler |-> "", params |-> <<>>]
     ELSE IF matching = {}
     THEN [code |-> "not_found", route |-> 0, handler |-> "", params |-> <<>>]
     ELSE [code |-> "handled", route |-> LastOf(matching),
           handler |-> router.routes[LastOf(matching)].handler,
           params |-> MatchFrom(router.routes[LastOf(matching)].pattern, 1, path, 1).groups]

\* Router.handle: the response, the route whose handler is called (0 for
\* none) and the params it is called with
RouterHandle(router, request) ==
  LET method == ToUpper(request.method)
      path == StripBase(router.basePath, request.path)
      matching == {k \in 1..Len(router.routes) :
                     /\ router.routes[k].method \in {method, <<"A", "L", "L">>}
                     /\ MatchFrom(router.routes[k].pattern, 1, path, 1).ok}
  IN IF /\ method \in {<<"P", "O", "S", "T">>, <<"P", "U", "T">>}
        /\ request.contentLength # -1
        /\ request.contentLength > router.maxBodySize
     THEN [code |-> "too_large", route |-> 0, handler |-> "", params |-> <<>>]
     ELSE IF matching = {}
     THEN [code |-> "not_found", route |-> 0, handler |-> "", params |-> <<>>]
     ELSE [code |-> "handled", route |-> FirstOf(matching),
           handler |-> router.routes[FirstOf(matching)].handler,
           params |-> MatchFrom(router.routes[FirstOf(matching)].pattern, 1, path, 1).groups]

\* one call of Router.handle, up to the call of the handler
RouteRequest(t, routers, requests) ==
  /\ tasks[t].pc = "idle"
  /\ tasks[t].kind = "idle"
  /\ \E router \in routers, request \in requests :
       \E res \in {RouterHandle(router, request)} :
         tasks' = [tasks EXCEPT ![t] =
           Done([IdleTask EXCEPT !.kind = "route", !.rows = router, !.form = request,
                                 !.found = res.route, !.config = res.params],
                [Res(res.code) EXCEPT !.role = res.handler])]
  /\ UNCHANGED <<members, nextId, history, nextHistId, now, settings>>

-----------------------------------------------------------------------------
(* adminOnly; getMembers, adminStats, exportMembers; getSettings,           *)
(* updateSettings                                                           *)

\* the handlers exported through adminOnly
AdminOps ==
  {"getMembers", "adminStats", "update", "delete", "batch", "export",
   "getSettings", "updateSettings", "import"}

\* adminOnly(handler) on a request for `op` that has just come in: 401
\* unless isAuthorized, the handler otherwise
adminOnly(t, ops, headers) ==
  /\ tasks[t].pc = "arriving"
  /\ \E op \in ops, h \in headers :
       tasks' = [tasks EXCEPT ![t] =
         IF isAuthorized(h, ADMIN_TOKEN)
         THEN [IdleTask EXCEPT !.auth = h, !.kind = op]
         ELSE Done([IdleTask EXCEPT !.auth = h, !.kind = op], Res("unauthorized"))]
  /\ UNCHANGED <<members, nextId, history, nextHistId, now, settings>>

\* COUNT(*) and COUNT(CASE WHEN status ... THEN 1 END) over members
CountStats(m, activeSet) ==
  [total |-> Cardinality(DOMAIN m),
   active |-> Cardinality({i \in DOMAIN m : m[i].status \in activeSet}),
   pending |-> Cardinality({i \in DOMAIN m : m[i].status = "pending"}),
   rejected |-> Cardinality({i \in DOMAIN m : m[i].status = "rejected"}),
   expired |-> Cardinality({i \in DOMAIN m : m[i].status = "expired"})]

\* getMembers: SELECT * FROM members ORDER BY created_at DESC
GetMembersStart(t) ==
  /\ Admitted(t, "getMembers")
  /\ tasks' = [tasks EXCEPT ![t] =
       [AdminTask(t) EXCEPT !.kind = "getMembers", !.pc = "count",
                            !.m0 = members, !.h0 = history, !.rows = members]]
  /\ UNCHANGED <<members, nextId, history, nextHistId, now, settings>>

\* getMembers: SELECT COUNT(*) ..., with status = 'active' counted as active
GetMembersCount(t) ==
  LET tk == tasks[t] IN
  /\ tk.kind = "getMembers" /\ tk.pc = "count"
  /\ tasks' = [tasks EXCEPT ![t] =
       Done([tk EXCEPT !.stats = CountStats(members, {"active"})], Res("ok"))]
  /\ UNCHANGED <<members, nextId, history, nextHistId, now, settings>>

\* adminStats: SELECT COUNT(*) ..., the seven active-like statuses counted
\* as active
AdminStatsStart(t) ==
  /\ Admitted(t, "adminStats")
  /\ tasks' = [tasks EXCEPT ![t] =
       [AdminTask(t) EXCEPT !.kind = "adminStats", !.pc = "statsRead", !.k = 1,
                            !.m0 = members, !.h0 = history,
                            !.stats = CountStats(members,
                                        activeStatuses \cup {"honorary_president"})]]
  /\ UNCHANGED <<members, nextId, history, nextHistId, now, settings>>

\* adminStats: the SELECTs of the bureau members, of the tracks of the
\* active-like members and of the pending applications, one after the other
AdminStatsRead(t) ==
  LET tk == tasks[t]
      read == CASE tk.k = 1 ->
                     {i \in DOMAIN members :
                        members[i].status \in BUREAU_POSITIONS \cup {"honorary_president"}}
                [] tk.k = 2 ->
                     {i \in DOMAIN members :
                        members[i].status \in activeStatuses \cup {"honorary_president"}}
                [] tk.k = 3 ->
                     {i \in DOMAIN members : members[i].status = "pending"}
  IN
  /\ tk.kind = "adminStats" /\ tk.pc = "statsRead"
  /\ tasks' = [tasks EXCEPT ![t] =
       LET tk2 == [tk EXCEPT !.rows = Append(@, read), !.k = @ + 1]
       IN IF tk.k = 3 THEN Done(tk2, Res("ok")) ELSE tk2]
  /\ UNCHANGED <<members, nextId, history, nextHistId, now, settings>>

\* exportMembers: SELECT * FROM members [WHERE status = ?]; an empty or
\* missing `status` parameter selects every member
ExportStart(t, filters) ==
  /\ Admitted(t, "export")
  /\ \E status \in filters :
       tasks' = [tasks EXCEPT ![t] =
         Done([AdminTask(t) EXCEPT
                 !.kind = "export", !.status = status,
                 !.m0 = members, !.h0 = history,
                 !.rows = [i \in {j \in DOMAIN members :
                                    status \in {NullStr, ""} \/ members[j].status = status}
                           |-> members[i]]],
              Res("ok"))]
  /\ UNCHANGED <<members, nextId, history, nextHistId, now, settings>>

\* JSON.parse of a stored value, the value itself when it is not JSON
JsonParse(value) ==
  CASE value = "true" -> TRUE
    [] value = "false" -> FALSE
    [] OTHER -> value

\* getSettings: SELECT key, value FROM settings
GetSettingsStart(t) ==
  /\ Admitted(t, "getSettings")
  /\ tasks' = [tasks EXCEPT ![t] =
       Done([AdminTask(t) EXCEPT
               !.kind = "getSettings", !.m0 = members, !.h0 = history,
               !.config = [key \in DOMAIN settings |-> JsonParse(settings[key])]],
            Res("ok"))]
  /\ UNCHANGED <<members, nextId, history, nextHistId, now, settings>>

\* String(value) of a boolean
StringOf(value) == IF value THEN "true" ELSE "false"

\* INSERT OR REPLACE INTO settings (key, value, updated_at)
SettingsPut(st, entry) ==
  [key \in DOMAIN st \cup {entry.key} |->
     IF key = entry.key THEN StringOf(entry.value) ELSE st[key]]

\* updateSettings: the first entry of the body written, if there is one
UpdateSettingsStart(t, menu) ==
  /\ Admitted(t, "updateSettings")
  /\ \E entries \in menu :
       LET tk == [AdminTask(t) EXCEPT !.kind = "updateSettings", !.rows = entries,
                                      !.m0 = members, !.h0 = history]
       IN IF entries = <<>>
          THEN /\ settings' = settings
               /\ tasks' = [tasks EXCEPT ![t] = Done(tk, Res("ok"))]
          ELSE /\ settings' = SettingsPut(settings, entries[1])
               /\ tasks' = [tasks EXCEPT ![t] =
                    IF Len(entries) = 1 THEN Done(tk, Res("ok"))
                    ELSE [tk EXCEPT !.pc = "setting", !.k = 2]]
  /\ UNCHANGED <<members, nextId, history, nextHistId, now>>

\* updateSettings: the next entry of the body written
UpdateSettingsNext(t) ==
  LET tk == tasks[t] IN
  /\ tk.kind = "updateSettings" /\ tk.pc = "setting"
  /\ settings' = SettingsPut(settings, tk.rows[tk.k])
  /\ tasks' = [tasks EXCEPT ![t] =
       IF tk.k = Len(tk.rows) THEN Done(tk, Res("ok")) ELSE [tk EXCEPT !.k = @ + 1]]
  /\ UNCHANGED <<members, nextId, history, nextHistId, now>>

-----------------------------------------------------------------------------
(* Initial states: two members, each created by apply (status pending, one  *)
(* history row) and then moved to its status by an earlier updateMember     *)

EmailA == <<"a", "@", "x", ".", "y">>
EmailB == <<"b", "@", "x", ".", "y">>
EmailC == <<"c", "@", "x", ".", "y">>
EmailD == <<"d", "@", "x", ".", "y">>

SeedIds == {1, 2}

SeedRow(i, st) ==
  [first_name |-> IF i = 1 THEN <<"A", "l">> ELSE <<"B", "o">>,
   last_name |-> IF i = 1 THEN <<"K", "o">> ELSE <<"L", "u">>,
   email |-> IF i = 1 THEN EmailA ELSE EmailB,
   student_id |-> Null,
   enrollment_track |-> <<"L", "3">>,
   phone |-> IF i = 1 THEN <<"0", "6">> ELSE Null,
   telegram |-> Null,
   discord |-> IF i = 1 THEN Null ELSE <<"@", "b">>,
   enrollment_number |-> Null,
   notes |-> Null,
   status |-> st,
   approved_at |-> IF st \in activeStatuses THEN EarlierStamp ELSE NullStr,
   expires_at |-> IF st \in activeStatuses THEN ExpiryDate(now) ELSE NullDate]

\* the history rows of a seeded member: the application, then the change
SeedEntries(i, st) ==
  <<HistoryEntry(0, i, NullStr, "pending", "Application submitted", NullStr)>>
  \o (IF st = "pending" THEN <<>>
      ELSE <<HistoryEntry(0, i, "pending", st, "Status updated by admin", "pending")>>)

SeedHistory(sts) ==
  LET h == SeedEntries(1, sts[1]) \o SeedEntries(2, sts[2])
  IN [k \in 1..Len(h) |-> [h[k] EXCEPT !.id = k]]

\* at most one holder of each unique bureau role
UniqueBureau(m) ==
  \A r \in BUREAU_POSITIONS : Cardinality(Holders(m, r, 0)) <= 1

\* the clocks a run may start under: August and September (zero-based 7, 8),
\* and the following January
Clocks ==
  {[year |-> 2026, month |-> 7], [year |-> 2026, month |-> 8],
   [year |-> 2027, month |-> 0]}

\* INSERT OR IGNORE INTO settings: the rows the schema starts with
DefaultSettings ==
  [key \in {"membership_open", "current_year"} |->
     IF key = "membership_open" THEN "true" ELSE "2024-2025"]

InitWith(seedStatuses, clocks) ==
  /\ now \in clocks
  /\ \E sts \in seedStatuses \X seedStatuses :
       /\ members = [i \in SeedIds |-> SeedRow(i, sts[i])]
       /\ UniqueBureau(members)
       /\ history = SeedHistory(sts)
       /\ nextHistId = Len(history) + 1
  /\ nextId = 3
  /\ tasks = [t \in Tasks |-> IdleTask]
  /\ settings = DefaultSettings

-----------------------------------------------------------------------------
(* Concurrent updateMember requests *)

\* the bodies of the concurrent requests: a status, alone or with a name edit
ConcStatuses == BUREAU_POSITIONS \cup {"active"}

ConcUpdates ==
  {[id |-> i, body |-> [NoBody EXCEPT !.status = s, !.firstName = f]] :
     i \in SeedIds, s \in ConcStatuses, f \in {Absent, <<"Z", "o">>}}

ConcSeeds == {"pending", "president", "treasurer"}

InitUpd == InitWith(ConcSeeds, {[year |-> 2026, month |-> 7]})

NextUpd == \E t \in Tasks : UpdateStart(t, ConcUpdates) \/ UpdateStep(t)

SpecUpd == InitUpd /\ [][NextUpd]_vars

-----------------------------------------------------------------------------
(* Two concurrent requests, each an updateMember or a deleteMember *)

DelUpdates ==
  {[id |-> i, body |-> [NoBody EXCEPT !.status = s]] :
     i \in SeedIds, s \in {"president", "treasurer", "active"}}

NextDel ==
  \E t \in Tasks :
    \/ UpdateStart(t, DelUpdates)
    \/ UpdateStep(t)
    \/ DeleteStart(t, SeedIds)

SpecDel == InitUpd /\ [][NextDel]_vars

-----------------------------------------------------------------------------
(* One request at a time: every operation, from every seeded state *)

AllSeeds == VALID_STATUSES

\* field edits a body may carry besides its status: none, a first name that
\* needs trimming, member 2's email in capitals, a free email, notes, the key
\* approvedAt
SeqEdits ==
  {NoBody,
   [NoBody EXCEPT !.firstName = <<" ", "Z", "o", " ">>],
   [NoBody EXCEPT !.email = <<"B", "@", "x", ".", "y">>],
   [NoBody EXCEPT !.email = EmailC],
   [NoBody EXCEPT !.notes = <<"o", "k">>],
   [NoBody EXCEPT !.approvedAt = TRUE]}

SeqStatuses == VALID_STATUSES \cup {AbsentStr, "bogus"}

SeqBodies ==
  {[e EXCEPT !.status = s] : e \in SeqEdits, s \in SeqStatuses}
  \cup {[NoBody EXCEPT !.status = s, !.reason = r] :
          s \in SeqStatuses, r \in {"", "Approved via test"}}

\* member 3 does not exist in a seeded state
SeqUpdates == {[id |-> i, body |-> b] : i \in {1, 2, 3}, b \in SeqBodies}

SeqBatches ==
  {[memberIds |-> ids, status |-> st, reason |-> AbsentStr] :
     ids \in {<<>>, <<1>>, <<2, 1>>, <<1, 3>>},
     st \in {"active", "rejected", "expired", "president"}}
  \cup {[memberIds |-> <<2>>, status |-> "active", reason |-> "Renewal"]}

SeqForms ==
  {[NoForm EXCEPT !.firstName = <<"C", "y">>, !.lastName = <<"M", "o">>,
                  !.email = e, !.enrollmentTrack = <<"L", "1">>, !.phone = ph] :
     e \in {<<"C", "@", "x", ".", "y">>, <<"A", "@", "x", ".", "y">>, <<"c", "@", "x">>},
     ph \in {Absent, <<"0", "7">>}}
  \cup {NoForm}

\* text.join(sep)
RECURSIVE Join(_, _)
Join(parts, sep) ==
  IF parts = <<>> THEN <<>>
  ELSE IF Len(parts) = 1 THEN parts[1]
  ELSE parts[1] \o <<sep>> \o Join(Tail(parts), sep)

CsvHeader == <<"P", "r", "é", "n", "o", "m", ",", "N", "o", "m", ",", "E", "m", "a", "i", "l", ",", "S", "t", "a", "t", "u", "t">>

\* data rows: two new emails and member 2 claiming secretary, member 1 (email
\* in capitals) as president, member 2 and a new email as honorary
\* president, a row whose email is malformed, a row whose label is the name
\* of an inherited property
CsvRowMenu ==
  {Join(<<<<"C", "y">>, <<"M", "o">>, EmailC, <<"S", "e", "c", "r", "é", "t", "a", "i", "r", "e">>>>, ","),
   Join(<<<<"D", "i">>, <<"N", "a">>, EmailD, <<"s", "e", "c", "r", "e", "t", "a", "i", "r", "e">>>>, ";"),
   Join(<<<<"B", "o">>, <<"L", "u">>, EmailB, <<"S", "E", "C", "R", "É", "T", "A", "I", "R", "E">>>>, ","),
   Join(<<<<"A", "l">>, <<"K", "o">>, <<"A", "@", "x", ".", "y">>, <<"P", "r", "é", "s", "i", "d", "e", "n", "t">>>>, ","),
   Join(<<<<"B", "o">>, <<"L", "u">>, EmailB, <<"P", "r", "é", "s", "i", "d", "e", "n", "t", " ", "d", "'", "h", "o", "n", "n", "e", "u", "r">>>>, ","),
   Join(<<<<"C", "y">>, <<"M", "o">>, EmailC, <<"P", "r", "é", "s", "i", "d", "e", "n", "t", " ", "d", "'", "h", "o", "n", "n", "e", "u", "r">>>>, ","),
   Join(<<<<"E", "d">>, <<"P", "o">>, <<"e", "@", "x">>, <<"T", "r", "é", "s", "o", "r", "i", "e", "r">>>>, ","),
   Join(<<<<"D", "i">>, <<"N", "a">>, EmailD, <<"c", "o", "n", "s", "t", "r", "u", "c", "t", "o", "r">>>>, ",")}

\* the sequences over S of length 1..n
SeqsUpTo(S, n) == UNION {[1..k -> S] : k \in 1..n}

SeqCsvs ==
  {Join(<<CsvHeader>> \o rows, "\n") : rows \in SeqsUpTo(CsvRowMenu, MaxRows)}
  \cup {<<>>, CsvHeader, Join(<<<<"A", "l">>, EmailA>>, ",") \o <<"\n">> \o EmailA \o <<"\n">> \o EmailB}

\* the steps of an importCSV, a batchUpdateMembers and an apply request
\* after the first
ImportStep(t) == ImportLookup(t) \/ ImportWrite(t)

ApplyStep(t) == ApplyInsert(t) \/ ApplyLog(t)

Init == InitWith(AllSeeds, {[year |-> 2026, month |-> 7]})

Next ==
  \/ UpdateStart("t1", SeqUpdates)
  \/ UpdateStep("t1")
  \/ DeleteStart("t1", {1, 2, 3})
  \/ BatchStart("t1", SeqBatches)
  \/ BatchLog("t1")
  \/ ApplyStart("t1", SeqForms)
  \/ ApplyStep("t1")
  \/ ImportStart("t1", SeqCsvs)
  \/ ImportStep("t1")

Spec == Init /\ [][Next]_vars

-----------------------------------------------------------------------------
(* updateMember requests one after the other, the clock moving between them *)

\* no request is in flight
Quiet == \A t \in Tasks : tasks[t].pc \in {"idle", "done"}

\* `new Date()` of a later request reads a later clock
Tick ==
  /\ Quiet
  /\ \E c \in Clocks :
       /\ c.year * 12 + c.month > now.year * 12 + now.month
       /\ now' = c
  /\ UNCHANGED <<members, nextId, history, nextHistId, tasks, settings>>

RepSeeds == {"pending", "active", "president"}

\* requests for member 1: a status or none, alone or with notes
RepUpdates ==
  {[id |-> 1, body |-> [NoBody EXCEPT !.status = s, !.notes = n]] :
     s \in {AbsentStr, "pending", "active", "honor", "president", "treasurer"},
     n \in {Absent, <<"o", "k">>}}

InitRep == InitWith(RepSeeds, Clocks)

NextRep ==
  \/ Tick
  \/ \E t \in Tasks :
       \/ /\ Quiet
          /\ t = "t1" \/ tasks["t1"].pc = "done"
          /\ UpdateStart(t, RepUpdates)
       \/ UpdateStep(t)

SpecRep == InitRep /\ [][NextRep]_vars

-----------------------------------------------------------------------------
(* One importCSV request at a time, over headers with and without a phone   *)
(* column                                                                   *)

CsvHeaderPhone == CsvHeader \o <<",", "T", "é", "l", "é", "p", "h", "o", "n", "e">>

\* a new member claiming secretary, with a phone
RowCy == <<"C", "y", ",", "M", "o", ",", "c", "@", "x", ".", "y", ",", "S", "e", "c", "r", "é", "t", "a", "i", "r", "e", ",", "0", "7">>
\* a new active member, four cells
RowDi == <<"D", "i", ",", "N", "a", ",", "d", "@", "x", ".", "y", ",", "a", "c", "t", "i", "f">>
\* a malformed email
RowEd == <<"E", "d", ",", "P", "o", ",", "e", "@", "x", ",", "T", "r", "é", "s", "o", "r", "i", "e", "r", ",", "0", "8">>
\* member 1 claiming president, with a blank fifth cell
RowAl == <<"A", "l", ",", "K", "o", ",", "a", "@", "x", ".", "y", ",", "P", "r", "é", "s", "i", "d", "e", "n", "t", ",">>
\* member 2 claiming secretary, four cells
RowBo == <<"B", "o", ",", "L", "u", ",", "b", "@", "x", ".", "y", ",", "S", "e", "c", "r", "é", "t", "a", "i", "r", "e">>

CsvRows == {RowCy, RowDi, RowEd, RowAl, RowBo}

\* n copies of x
Copies(n, x) == [i \in 1..n |-> x]

CsvMenu ==
  {Join(<<h>> \o rows, "\n") :
     h \in {CsvHeader, CsvHeaderPhone}, rows \in SeqsUpTo(CsvRows, MaxCsvRows)}
  \* up to MaxFailed malformed rows, alone or before a good one
  \cup {Join(<<CsvHeader>> \o Copies(n, RowEd) \o tail, "\n") :
          n \in 1..MaxFailed, tail \in {<<>>, <<RowDi>>}}
  \* a blank line between two rows, a header alone, headers without an
  \* email / a last-name / a first-name column
  \cup {Join(<<CsvHeader, RowDi, <<" ">>, RowCy>>, "\n"),
        CsvHeader,
        CsvHeaderPhone \o <<"\n">>,
        Join(<<<<"P", "r", "é", "n", "o", "m", ",", "N", "o", "m", ",", "S", "t", "a", "t", "u", "t">>, <<"C", "y", ",", "M", "o", ",", "a", "c", "t", "i", "f">>>>, "\n"),
        Join(<<<<"P", "r", "é", "n", "o", "m", ",", "E", "m", "a", "i", "l">>, <<"C", "y", ",", "c", "@", "x", ".", "y">>>>, "\n"),
        Join(<<<<"N", "a", "m", "e", ",", "E", "m", "a", "i", "l", ",", "S", "t", "a", "t", "u", "s">>, <<"C", "y", " ", "M", "o", ",", "c", "@", "x", ".", "y", ",", "A", "c", "t", "i", "v", "e">>>>, "\n")}

CsvSeeds == {"pending", "active", "secretary", "president"}

InitCsv == InitWith(CsvSeeds, {[year |-> 2026, month |-> 7]})

NextCsv ==
  \/ ImportStart("t1", CsvMenu)
  \/ ImportStep("t1")

SpecCsv == InitCsv /\ [][NextCsv]_vars

-----------------------------------------------------------------------------
(* mapStatusFromLabel on its own: the status cell of one row *)

Capitalised(s) == IF s = <<>> THEN s ELSE <<UpperChar(s[1])>> \o Tail(s)

\* each key of the table as written, capitalised, in capitals and between
\* spaces; labels the table does not have; the empty and the absent cell
LabelMenu ==
  {k : k \in MappingKeys}
  \cup {Capitalised(k) : k \in MappingKeys}
  \cup {ToUpper(k) : k \in MappingKeys}
  \cup {<<" ">> \o Capitalised(k) \o <<" ", "\t">> : k \in MappingKeys}
  \cup {ToUpper(k) \o <<" ">> : k \in MappingKeys}
  \cup {<<"U", "n", "k", "n", "o", "w", "n">>, <<"b", "u", "r", "e", "a", "u">>,
        <<"a", "c", "t", "i", "v", "e">>, <<"m", "e", "m", "b", "r", "e">>,
        <<"t", "r", "é", "s", "o", "r", "i", "è", "r", "e">>,
        <<"c", "o", "n", "s", "t", "r", "u", "c", "t", "o", "r">>,
        <<"C", "o", "n", "s", "t", "r", "u", "c", "t", "o", "r", " ">>,
        <<"_", "_", "p", "r", "o", "t", "o", "_", "_">>,
        <<"t", "o", "S", "t", "r", "i", "n", "g">>,
        <<" ">>, <<>>, Null, Absent}

\* one call: the label goes in, the status comes out
MapLabel(t, menu) ==
  /\ tasks[t].pc \in {"idle", "done"}
  /\ \E label \in menu :
       tasks' = [tasks EXCEPT ![t] =
         Done([IdleTask EXCEPT !.kind = "map", !.label = label,
                               !.status = mapStatusFromLabel(label)], Res("ok"))]
  /\ UNCHANGED <<members, nextId, history, nextHistId, now, settings>>

InitMap == InitWith({"pending"}, {[year |-> 2026, month |-> 7]})

NextMap == MapLabel("t1", LabelMenu)

SpecMap == InitMap /\ [][NextMap]_vars

-----------------------------------------------------------------------------
(* One importCSV request over rows of every kind of status, for a stored   *)
(* and for a new email, under a header with and without a track column     *)

RosterLabels ==
  {<<"e", "n", " ", "a", "t", "t", "e", "n", "t", "e">>,
   <<"r", "e", "f", "u", "s", "é">>,
   <<"e", "x", "p", "i", "r", "é">>,
   <<"a", "c", "t", "i", "f">>,
   <<"h", "o", "n", "n", "e", "u", "r">>,
   <<"P", "r", "é", "s", "i", "d", "e", "n", "t">>,
   <<"P", "r", "é", "s", "i", "d", "e", "n", "t", " ", "d", "'", "h", "o", "n", "n", "e", "u", "r">>}

\* rows for member 1's email and for a new email, `track` being the cells
\* that follow the status
RosterRows(track) ==
  {Join(<<<<"Z", "o">>, <<"K", "o">>, e, l>> \o track, ",") :
     e \in {EmailA, EmailC}, l \in RosterLabels}

RosterCsvs ==
  {Join(<<CsvHeader>> \o rows, "\n") : rows \in SeqsUpTo(RosterRows(<<>>), MaxRows)}
  \cup {Join(<<CsvHeader \o <<",", "t", "r", "a", "c", "k">>>> \o rows, "\n") :
          rows \in SeqsUpTo(RosterRows(<<<<"M", "1">>>>), MaxRows)}

InitRoster ==
  InitWith({"pending", "active"}, {[year |-> 2026, month |-> 7], [year |-> 2026, month |-> 8]})

NextRoster ==
  \/ ImportStart("t1", RosterCsvs)
  \/ ImportStep("t1")

SpecRoster == InitRoster /\ [][NextRoster]_vars

-----------------------------------------------------------------------------
(* parseCSVLine on its own, over every short line of letters, spaces,      *)
(* delimiters and double quotes                                            *)

MaxLineLen == 4

LineMenu == SeqsUpTo({"a", " ", ",", ";", "\""}, MaxLineLen) \cup {<<>>, <<"a", "\t", "a">>}

\* one call of parseCSVLine
ParseLine(t, menu) ==
  /\ tasks[t].pc = "idle"
  /\ tasks[t].kind = "idle"
  /\ \E line \in menu :
       tasks' = [tasks EXCEPT ![t] =
         Done([IdleTask EXCEPT !.kind = "parse", !.csv = line, !.rows = parseCSVLine(line)],
              Res("ok"))]
  /\ UNCHANGED <<members, nextId, history, nextHistId, now, settings>>

InitParse == InitWith({"pending"}, {[year |-> 2026, month |-> 7]})

NextParse == ParseLine("t1", LineMenu)

SpecParse == InitParse /\ [][NextParse]_vars

-----------------------------------------------------------------------------
(* Router.handle on its own: the routes of the application under their     *)
(* base path, and a small table with a parameter route registered before a *)
(* fixed one, a route for every method and a root route                    *)

RouterMenu ==
  {NewRouter(<<"/", "a", "d", "h", "e", "s", "i", "o", "n">>, 0,
     <<[method |-> <<"G", "E", "T">>, path |-> <<"/", "a", "p", "i", "/", "s", "t", "a", "t", "s">>, handler |-> "getStats"],
      [method |-> <<"P", "O", "S", "T">>, path |-> <<"/", "a", "p", "i", "/", "a", "p", "p", "l", "y">>, handler |-> "apply"],
      [method |-> <<"G", "E", "T">>, path |-> <<"/", "a", "p", "i", "/", "a", "d", "m", "i", "n", "/", "m", "e", "m", "b", "e", "r", "s">>, handler |-> "getMembers"],
      [method |-> <<"P", "U", "T">>, path |-> <<"/", "a", "p", "i", "/", "a", "d", "m", "i", "n", "/", "m", "e", "m", "b", "e", "r", "s", "/", ":", "i", "d">>, handler |-> "updateMember"],
      [method |-> <<"P", "O", "S", "T">>, path |-> <<"/", "a", "p", "i", "/", "a", "d", "m", "i", "n", "/", "m", "e", "m", "b", "e", "r", "s", "/", "b", "a", "t", "c", "h">>, handler |-> "batchUpdateMembers"],
      [method |-> <<"D", "E", "L", "E", "T", "E">>, path |-> <<"/", "a", "p", "i", "/", "a", "d", "m", "i", "n", "/", "m", "e", "m", "b", "e", "r", "s", "/", ":", "i", "d">>, handler |-> "deleteMember"]>>),
   NewRouter(<<"/", "j", "/">>, 100,
     <<[method |-> <<"g", "e", "t">>, path |-> <<"/", "m", "/", ":", "i", "d">>, handler |-> "show"],
      [method |-> <<"G", "E", "T">>, path |-> <<"/", "m", "/", "n", "e", "w">>, handler |-> "new"],
      [method |-> <<"p", "o", "s", "t">>, path |-> <<"/", "m">>, handler |-> "create"],
      [method |-> <<"a", "l", "l">>, path |-> <<"/", "p", "i", "n", "g">>, handler |-> "ping"],
      [method |-> <<"G", "E", "T">>, path |-> <<"/", "t", "/", ":", "t", "e", "a", "m", "/", "m", "/", ":", "i", "d">>, handler |-> "member"],
      [method |-> <<"G", "E", "T">>, path |-> <<"/">>, handler |-> "root"]>>),
   NewRouter(<<>>, 100,
     <<[method |-> <<"g", "e", "t">>, path |-> <<"/", "m", "/", ":", "i", "d">>, handler |-> "show"],
      [method |-> <<"G", "E", "T">>, path |-> <<"/", "m", "/", "n", "e", "w">>, handler |-> "new"],
      [method |-> <<"p", "o", "s", "t">>, path |-> <<"/", "m">>, handler |-> "create"],
      [method |-> <<"a", "l", "l">>, path |-> <<"/", "p", "i", "n", "g">>, handler |-> "ping"],
      [method |-> <<"G", "E", "T">>, path |-> <<"/", "t", "/", ":", "t", "e", "a", "m", "/", "m", "/", ":", "i", "d">>, handler |-> "member"],
      [method |-> <<"G", "E", "T">>, path |-> <<"/">>, handler |-> "root"]>>)}

RequestMenu ==
  {[method |-> m, path |-> p, contentLength |-> n] :
     m \in {<<"G", "E", "T">>, <<"P", "O", "S", "T">>, <<"P", "U", "T">>, <<"D", "E", "L", "E", "T", "E">>, <<"g", "e", "t">>},
     p \in {<<"/", "a", "d", "h", "e", "s", "i", "o", "n", "/", "a", "p", "i", "/", "s", "t", "a", "t", "s">>,
            <<"/", "a", "d", "h", "e", "s", "i", "o", "n", "/", "a", "p", "i", "/", "a", "p", "p", "l", "y">>,
            <<"/", "a", "d", "h", "e", "s", "i", "o", "n", "/", "a", "p", "i", "/", "a", "d", "m", "i", "n", "/", "m", "e", "m", "b", "e", "r", "s">>,
            <<"/", "a", "d", "h", "e", "s", "i", "o", "n", "/", "a", "p", "i", "/", "a", "d", "m", "i", "n", "/", "m", "e", "m", "b", "e", "r", "s", "/", "7">>,
            <<"/", "a", "d", "h", "e", "s", "i", "o", "n", "/", "a", "p", "i", "/", "a", "d", "m", "i", "n", "/", "m", "e", "m", "b", "e", "r", "s", "/", "b", "a", "t", "c", "h">>,
            <<"/", "a", "d", "h", "e", "s", "i", "o", "n", "/", "a", "p", "i", "/", "a", "d", "m", "i", "n", "/", "m", "e", "m", "b", "e", "r", "s", "/", "7", "/", "x">>,
            <<"/", "a", "p", "i", "/", "a", "d", "m", "i", "n", "/", "m", "e", "m", "b", "e", "r", "s", "/", "7">>,
            <<"/", "a", "d", "h", "e", "s", "i", "o", "n">>,
            <<"/", "m", "/", "n", "e", "w">>,
            <<"/", "m", "/", "4", "2">>,
            <<"/", "m">>,
            <<"/", "m", "/">>,
            <<"/", "p", "i", "n", "g">>,
            <<"/", "t", "/", "5", "/", "m", "/", "1", "0">>,
            <<"/", "j", "/", "m", "/", "4", "2">>,
            <<"/", "j">>,
            <<"/", "n", "o", "w", "h", "e", "r", "e">>},
     n \in {-1, 50, 200}}

InitRoute == InitWith({"pending"}, {[year |-> 2026, month |-> 7]})

NextRoute == RouteRequest("t1", RouterMenu, RequestMenu)

SpecRoute == InitRoute /\ [][NextRoute]_vars

-----------------------------------------------------------------------------
(* One admin request, with and without the administrator's header           *)

\* no header, another scheme, no token, a wrong token, the token's prefix,
\* the token followed by more, the scheme in lower case, the header itself
HeaderMenu ==
  {Null, <<"I", "n", "v", "a", "l", "i", "d">>,
   <<"B", "e", "a", "r", "e", "r", " ">>,
   <<"B", "e", "a", "r", "e", "r", " ", "b", "a", "d">>,
   <<"B", "e", "a", "r", "e", "r", " ", "s", "3">>,
   AdminHeader \o <<"c">>,
   <<"b", "e", "a", "r", "e", "r", " ">> \o ADMIN_TOKEN,
   <<"B", "e", "a", "r", "e", "r">> \o ADMIN_TOKEN,
   AdminHeader}

AuthUpdates ==
  {[id |-> 1, body |-> [NoBody EXCEPT !.status = s, !.notes = n]] :
     s \in {"active", "president"}, n \in {Absent, <<"o", "k">>}}

AuthBatches == {[memberIds |-> <<1, 2>>, status |-> "active", reason |-> AbsentStr]}

AuthSettings ==
  {<<>>, <<[key |-> "membership_open", value |-> FALSE]>>,
   <<[key |-> "maintenance", value |-> TRUE],
     [key |-> "membership_open", value |-> FALSE]>>}

AuthCsvs == {Join(<<CsvHeader, RowDi>>, "\n"), Join(<<CsvHeader, RowAl>>, "\n")}

AuthSeeds == {"pending", "active", "president"}

InitAuth ==
  /\ now = [year |-> 2026, month |-> 7]
  /\ \E sts \in AuthSeeds \X AuthSeeds :
       /\ members = [i \in SeedIds |-> SeedRow(i, sts[i])]
       /\ UniqueBureau(members)
       /\ history = SeedHistory(sts)
       /\ nextHistId = Len(history) + 1
  /\ nextId = 3
  /\ tasks = [t \in Tasks |-> [IdleTask EXCEPT !.pc = "arriving", !.auth = Null]]
  /\ settings = DefaultSettings

NextAuth ==
  \/ adminOnly("t1", AdminOps, HeaderMenu)
  \/ GetMembersStart("t1")
  \/ GetMembersCount("t1")
  \/ AdminStatsStart("t1")
  \/ AdminStatsRead("t1")
  \/ ExportStart("t1", {NullStr, "", "active"})
  \/ GetSettingsStart("t1")
  \/ UpdateSettingsStart("t1", AuthSettings)
  \/ UpdateSettingsNext("t1")
  \/ UpdateStart("t1", AuthUpdates)
  \/ UpdateStep("t1")
  \/ DeleteStart("t1", {1, 3})
  \/ BatchStart("t1", AuthBatches)
  \/ BatchLog("t1")
  \/ ImportStart("t1", AuthCsvs)
  \/ ImportStep("t1")

SpecAuth == InitAuth /\ [][NextAuth]_vars

-----------------------------------------------------------------------------
(* One apply request, over forms that break each rule of the validation on  *)
(* its own and together                                                     *)

FormMenu ==
  {[NoForm EXCEPT !.firstName = fn, !.lastName = ln, !.email = e,
                  !.enrollmentTrack = tr, !.phone = ph, !.telegram = tg,
                  !.discord = dc] :
     fn \in {Absent, <<" ", " ">>, <<"C", "y">>},
     ln \in {Null, <<"M", "o">>},
     e \in {Absent, <<" ">>, <<"c", "@", "x">>, EmailC, <<" ">> \o EmailC},
     tr \in {Absent, <<>>, <<"L", "1">>},
     ph \in {Absent, <<"0", "7">>},
     tg \in {Absent, <<" ">>},
     dc \in {Null, <<"@", "c">>}}

InitForm == InitWith({"pending"}, {[year |-> 2026, month |-> 7]})

NextForm ==
  \/ ApplyStart("t1", FormMenu)
  \/ ApplyStep("t1")

SpecForm == InitForm /\ [][NextForm]_vars

-----------------------------------------------------------------------------
(* apply, updateMember and importCSV requests one after the other, with    *)
(* emails in capitals, between spaces and before a tab                      *)

ChainSeeds == {"pending", "active", "rejected"}

\* applications under a free email, under member 1's email in capitals and
\* before a tab, under the free email in capitals; an empty form
ChainForms ==
  {[NoForm EXCEPT !.firstName = <<"C", "y">>, !.lastName = <<"M", "o">>,
                  !.email = e, !.enrollmentTrack = <<"L", "1">>,
                  !.phone = <<"0", "7">>] :
     e \in {EmailC, <<"C", "@", "x", ".", "y">>, <<"A", "@", "x", ".", "y">>,
            EmailA \o <<"\t">>}}
  \cup {NoForm}

\* email edits: member 2's email and a free one, in capitals between spaces;
\* status changes to active and to president; names between spaces, blank
\* and empty
ChainUpdates ==
  {[id |-> i, body |-> [NoBody EXCEPT !.email = e]] :
     i \in SeedIds,
     e \in {<<" ", "B", "@", "x", ".", "y", " ">>, <<" ", "D", "@", "X", ".", "Y">>}}
  \cup {[id |-> i, body |-> [NoBody EXCEPT !.status = s]] :
          i \in SeedIds, s \in {"active", "president"}}
  \cup {[id |-> 1, body |-> [NoBody EXCEPT !.firstName = n]] :
          n \in {<<" ", "Z", "o", " ">>, <<" ", " ">>}}
  \cup {[id |-> 1, body |-> [NoBody EXCEPT !.lastName = <<>>]]}

\* one-row imports: member 1's email in capitals, a free email between spaces
ChainCsvs ==
  {Join(<<CsvHeader, <<"A", "l", ",", "K", "o", ",", "A", "@", "x", ".", "y", ",", "a", "c", "t", "i", "f">>>>, "\n"),
   Join(<<CsvHeader, <<"C", "y", ",", "M", "o", ",", " ", "C", "@", "x", ".", "y", " ", ",", "a", "c", "t", "i", "f">>>>, "\n")}

InitChain == InitWith(ChainSeeds, {[year |-> 2026, month |-> 7]})

NextChain ==
  \E t \in Tasks :
     \/ /\ Quiet
        /\ t = "t1" \/ tasks["t1"].pc = "done"
        /\ \/ ApplyStart(t, ChainForms)
           \/ UpdateStart(t, ChainUpdates)
           \/ ImportStart(t, ChainCsvs)
     \/ ApplyStep(t)
     \/ UpdateStep(t)
     \/ ImportStep(t)

SpecChain == InitChain /\ [][NextChain]_vars

-----------------------------------------------------------------------------
(* An importCSV request concurrent with updateMember or importCSV requests *)

ImpCsvs ==
  {Join(<<CsvHeader, Join(<<<<"A", "l">>, <<"K", "o">>, EmailA, <<"P", "r", "é", "s", "i", "d", "e", "n", "t">>>>, ",")>>, "\n"),
   Join(<<CsvHeader, Join(<<<<"C", "y">>, <<"M", "o">>, EmailC, <<"P", "r", "é", "s", "i", "d", "e", "n", "t">>>>, ",")>>, "\n"),
   Join(<<CsvHeader, Join(<<<<"B", "o">>, <<"L", "u">>, EmailB, <<"T", "r", "é", "s", "o", "r", "i", "e", "r">>>>, ","),
          Join(<<<<"C", "y">>, <<"M", "o">>, EmailC, <<"M", "e", "m", "b", "r", "e", " ", "a", "c", "t", "i", "f">>>>, ",")>>, "\n")}

ImpUpdates ==
  {[id |-> i, body |-> [NoBody EXCEPT !.status = s]] :
     i \in SeedIds, s \in {"president", "treasurer", "active"}}

InitImp == InitWith(ConcSeeds, {[year |-> 2026, month |-> 7]})

NextImp ==
  \E t \in Tasks :
     \/ ImportStart(t, ImpCsvs)
     \/ ImportStep(t)
     \/ UpdateStart(t, ImpUpdates)
     \/ UpdateStep(t)

SpecImp == InitImp /\ [][NextImp]_vars

-----------------------------------------------------------------------------
(* Claims *)

\* the tasks that are updateMember requests for status s
UpdatesFor(s) == {t \in Tasks : tasks[t].kind = "update" /\ tasks[t].body.status = s}

\* C1: under any interleaving of concurrent updateMember requests, each of
\* president, vice_president, secretary and treasurer is held by at most one
\* member
C1_UniqueUnderUpdates == UniqueBureau(members)

\* C1 case: two requests for the same unique role and different members have
\* both answered, and the role has its one holder
C1_Witness ==
  \E r \in BUREAU_POSITIONS :
     /\ UpdatesFor(r) = Tasks
     /\ tasks["t1"].id # tasks["t2"].id
     /\ \A t \in Tasks : tasks[t].pc = "done"
     /\ Cardinality(Holders(members, r, 0)) = 1

\* two requests for president, for different members, issued when nobody
\* holds president
TwoPresidentRequests ==
  /\ UpdatesFor("president") = Tasks
  /\ tasks["t1"].id # tasks["t2"].id
  /\ \E t \in Tasks : Holders(tasks[t].m0, "president", 0) = {}

\* C2: of two concurrent requests for president for two different members,
\* issued when nobody holds president, exactly one succeeds and the other
\* answers the conflict error
C2_OneWinner ==
  (TwoPresidentRequests /\ \A t \in Tasks : tasks[t].pc = "done")
  => \E w \in Tasks :
       /\ tasks[w].result.code = "ok"
       /\ \A l \in Tasks \ {w} : tasks[l].result.code = "conflict"

\* C2 case: both requests were in flight before either wrote (each read the
\* state without a president), and both have answered
C2_Witness ==
  /\ UpdatesFor("president") = Tasks
  /\ tasks["t1"].id # tasks["t2"].id
  /\ \A t \in Tasks :
       /\ tasks[t].pc = "done"
       /\ Holders(tasks[t].m0, "president", 0) = {}
       /\ tasks[t].m0 = tasks["t1"].m0

\* C9 (as claimed): every history row's old status is the status the member
\* had in storage immediately before the status write the row logs
C9_OldStatusAccurate ==
  \A k \in 1..Len(history) : history[k].old_status = history[k].actual_old

\* C3 (as claimed): the uniqueness invariant holds in every state reachable
\* when an importCSV request runs concurrently with updateMember requests or
\* another importCSV request
C3_UniqueUnderImport ==
  (\E t \in Tasks : tasks[t].kind = "import") => UniqueBureau(members)

-----------------------------------------------------------------------------
(* Claims about one request at a time (Spec) *)

Req == tasks["t1"]

Finished(kind) == Req.kind = kind /\ Req.pc = "done"

\* the import had exactly two data rows, both valid, with different emails,
\* both claiming secretary, and nobody held secretary when it started
TwoSecretaryRows ==
  /\ Finished("import")
  /\ Len(Req.rows) = 2
  /\ \A k \in {1, 2} :
       /\ Req.rows[k].member.status = "secretary"
       /\ Req.rows[k].member.firstName \notin {Absent, <<>>}
       /\ Req.rows[k].member.lastName \notin {Absent, <<>>}
       /\ isValidEmail(Req.rows[k].member.email)
  /\ Req.rows[1].member.email # Req.rows[2].member.email
  /\ Holders(Req.m0, "secretary", 0) = {}

\* C4: a single importCSV run started with at most one holder per unique role
\* leaves at most one holder per unique role; when two rows with different
\* emails both claim secretary and nobody holds it, the first row is written
\* as secretary and the second is skipped with exactly one row-level error
C4_ImportKeepsUnique ==
  /\ Req.kind = "import" => UniqueBureau(members)
  /\ TwoSecretaryRows =>
       LET first == Req.rows[1].member
           second == Req.rows[2].member
       IN /\ \E i \in ByEmail(members, first.email) : members[i].status = "secretary"
          /\ \A i \in ByEmail(members, second.email) :
                i \in DOMAIN Req.m0 /\ members[i] = Req.m0[i]
          /\ ByEmail(Req.m0, second.email) \subseteq DOMAIN members
          /\ Req.stats.skipped = 1
          /\ Len(Req.stats.errors) = 1
          /\ Req.stats.errors[1].row = Req.rows[2].index

\* C4 case: such an import has run, its first row updating member 2
C4_Witness ==
  /\ TwoSecretaryRows
  /\ Req.rows[1].member.email = EmailB
  /\ Req.stats.updated = 1

\* an updateMember request for the unique role its member already holds,
\* carrying no key besides status, reason and recognized fields
SelfReassignment ==
  /\ Finished("update")
  /\ Req.id \in DOMAIN Req.m0
  /\ Req.body.status \in BUREAU_POSITIONS
  /\ Req.m0[Req.id].status = Req.body.status
  /\ ~Req.body.approvedAt /\ ~Req.body.expiresAt

HonoraryRows ==
  {k \in 1..Len(Req.rows) :
     /\ Req.rows[k].member.status = "honorary_president"
     /\ Req.rows[k].member.firstName \notin {Absent, <<>>}
     /\ Req.rows[k].member.lastName \notin {Absent, <<>>}
     /\ isValidEmail(Req.rows[k].member.email)
     /\ \A j \in (k + 1)..Len(Req.rows) :
          Req.rows[j].member.email # Req.rows[k].member.email}

C7_ConflictWritesNothing ==
  (Finished("update") /\ Req.result.code = "conflict")
  => /\ \E h \in Holders(Req.m0, Req.body.status, Req.id) :
          /\ Req.result.first_name = Req.m0[h].first_name
          /\ Req.result.last_name = Req.m0[h].last_name
     /\ Req.result.role = STATUS_LABELS(Req.body.status)
     /\ members = Req.m0
     /\ history = Req.h0

\* C7 case: a refused request that also carried a first-name edit
C7_Witness ==
  /\ Finished("update")
  /\ Req.result.code = "conflict"
  /\ Req.body.firstName # Absent
  /\ Req.result.first_name = <<"B", "o">>

\* the reason a history row of this request must carry
ExpectedReason ==
  IF Req.body.reason \in {AbsentStr, ""} THEN "Status updated by admin"
  ELSE Req.body.reason

\* C8: a successful updateMember whose requested status differs from the
\* member's status appends exactly one history row (old = prior status, new =
\* requested status, reason = supplied or the default); one carrying only
\* non-status field edits appends none
C8_OneEntryPerChange ==
  (Finished("update") /\ Req.result.code = "ok")
  => IF Req.body.status = AbsentStr THEN history = Req.h0
     ELSE Req.body.status # Req.m0[Req.id].status
          => /\ Len(history) = Len(Req.h0) + 1
             /\ SubSeq(history, 1, Len(Req.h0)) = Req.h0
             /\ LET e == history[Len(history)] IN
                /\ e.member_id = Req.id
                /\ e.old_status = Req.m0[Req.id].status
                /\ e.new_status = Req.body.status
                /\ e.reason = ExpectedReason

\* C8 case: a member moved to a unique role by a request that also edits a
\* field, logged once
C8_Witness ==
  /\ Finished("update")
  /\ Req.result.code = "ok"
  /\ Req.body.status \in BUREAU_POSITIONS
  /\ Req.body.status # Req.m0[Req.id].status
  /\ Req.body.notes # Absent
  /\ Len(history) = Len(Req.h0) + 1

IsPrefix(a, b) == Len(a) <= Len(b) /\ SubSeq(b, 1, Len(a)) = a

-----------------------------------------------------------------------------
(* Claims about requests one after the other (SpecRep) *)

\* the requests of SpecRep that have answered
Answered == {t \in Tasks : tasks[t].kind = "update" /\ tasks[t].pc = "done"}

\* the latest of them: request t2 starts after t1 has answered
Latest == IF tasks["t2"].pc = "done" THEN "t2" ELSE "t1"

\* the last request answered success and moved its member from pending to
\* active
ApprovedNow ==
  /\ Quiet /\ Answered # {}
  /\ tasks[Latest].result.code = "ok"
  /\ tasks[Latest].m0[tasks[Latest].id].status = "pending"
  /\ tasks[Latest].body.status = "active"

\* C11: updateMember changing a member from pending to active sets
\* approved_at to a non-null value and expires_at to Y-08-31, Y being the
\* current year when the zero-based month is below 8 and the next year
\* otherwise
C11_ApprovalDates ==
  ApprovedNow =>
    LET row == members[tasks[Latest].id]
        clock == tasks[Latest].t0
        Y == IF clock.month < 8 THEN clock.year ELSE clock.year + 1
    IN /\ row.status = "active"
       /\ row.approved_at # NullStr
       /\ row.expires_at = <<Y, 8, 31>>

\* C11 case: a member approved in September (month 8) expires on 31 August
\* of the next year
C11_Witness ==
  /\ ApprovedNow
  /\ tasks[Latest].t0 = [year |-> 2026, month |-> 8]
  /\ members[tasks[Latest].id].expires_at = <<2027, 8, 31>>
  /\ members[tasks[Latest].id].approved_at = NowStamp

\* C12: an updateMember request for a member whose status is active, honor
\* or a unique bureau role leaves approved_at and expires_at as they were,
\* whatever status or field edit it carries and whatever it answers, also
\* when it follows an earlier request and the clock has moved
C12_DatesKept ==
  (Quiet /\ Answered # {}) =>
    LET tk == tasks[Latest] IN
    (tk.id \in DOMAIN tk.m0 /\ tk.m0[tk.id].status \in activeStatuses)
    => /\ members[tk.id].approved_at = tk.m0[tk.id].approved_at
       /\ members[tk.id].expires_at = tk.m0[tk.id].expires_at

\* C12 case: a member approved by a first request was, after the clock moved
\* to the next membership year, moved to another active status by a second
\* request, and kept the dates of the approval
C12_Witness ==
  /\ Answered = Tasks /\ Quiet
  /\ tasks["t1"].m0[1].status = "pending"
  /\ tasks["t1"].body.status = "active"
  /\ tasks["t2"].body.status = "president"
  /\ tasks["t2"].result.code = "ok"
  /\ members[1].status = "president"
  /\ members[1].expires_at = <<2026, 8, 31>>
  /\ ExpiryDate(now) = <<2027, 8, 31>>

-----------------------------------------------------------------------------
(* More claims about one request at a time (Spec) *)

\* C13: updateMember for an id that does not exist answers 'Member not
\* found', and for a status outside the ten values answers 'Invalid status'
\* with the list of the ten values; in both cases members and history are as
\* before the request, whatever field edits the body carries
C13_RefusedUpdateWritesNothing ==
  Finished("update") =>
    /\ Req.id \notin DOMAIN Req.m0
       => /\ Req.result.code = "not_found"
          /\ members = Req.m0 /\ history = Req.h0
    /\ (Req.id \in DOMAIN Req.m0 /\ Req.body.status \notin VALID_STATUSES \cup {AbsentStr})
       => /\ Req.result.code = "invalid_status"
          /\ Req.result.listed =
               {"pending", "active", "honor", "secretary", "treasurer", "president",
                "honorary_president", "vice_president", "rejected", "expired"}
          /\ members = Req.m0 /\ history = Req.h0

\* C13 case: a request with an unknown status and a valid email edit was
\* refused
C13_Witness ==
  /\ Finished("update")
  /\ Req.id \in DOMAIN Req.m0
  /\ Req.body.status = "bogus"
  /\ Req.body.email = EmailC
  /\ Req.result.code = "invalid_status"

-----------------------------------------------------------------------------
(* Claims about one importCSV request (SpecCsv) *)

\* the rows counted so far by the import
Counted == Req.stats.imported + Req.stats.updated + Req.stats.skipped

\* the import has answered with its counts
Imported == Finished("import") /\ Req.result.code = "ok"

\* C14: every non-blank data row increments exactly one of imported, updated
\* and skipped: while the import is at row k the three add up to k - 1, and
\* in the response total = imported + updated + skipped = the number of
\* non-blank data rows, also when more than ten rows failed and the response
\* carries only the first ten error messages, in row order
C14_CountsExact ==
  /\ (Req.kind = "import" /\ Req.pc \in {"lookup", "write"}) => Counted = Req.k - 1
  /\ Imported =>
       /\ Counted = Len(Req.rows)
       /\ Req.result.stats.total = Len(Req.rows)
       /\ Req.result.stats.imported = Req.stats.imported
       /\ Req.result.stats.updated = Req.stats.updated
       /\ Req.result.stats.skipped = Req.stats.skipped
       /\ Req.stats.skipped = Len(Req.stats.errors)
       /\ Len(Req.result.errors) = IF Req.stats.skipped > 10 THEN 10 ELSE Req.stats.skipped
       /\ \A i \in 1..Len(Req.result.errors) : Req.result.errors[i] = Req.stats.errors[i]
       /\ \A i, j \in 1..Len(Req.stats.errors) :
            i < j => Req.stats.errors[i].row < Req.stats.errors[j].row

\* C14 case: eleven rows failed and one was imported; the response counts
\* twelve rows and carries ten messages
C14_Witness ==
  /\ Imported
  /\ Req.result.stats.skipped = 11
  /\ Req.result.stats.imported = 1
  /\ Req.result.stats.total = 12
  /\ Len(Req.result.errors) = 10


\* the error messages of the import that name row k of the CSV
ErrorsOf(k) ==
  {e \in 1..Len(Req.stats.errors) : Req.stats.errors[e].row = Req.rows[k].index}

\* row k lacks a name or an email, or its email is malformed
Invalid(k) ==
  LET m == Req.rows[k].member IN
  \/ m.firstName \in {Absent, <<>>} \/ m.lastName \in {Absent, <<>>}
  \/ m.email \in {Absent, <<>>}
  \/ ~isValidEmail(m.email)

\* row k is the last row of its email that the import accepted
LastAccepted(k) ==
  \A j \in (k + 1)..Len(Req.rows) :
     Req.rows[j].member.email = Req.rows[k].member.email => ErrorsOf(j) # {}

\* C15: the import never aborts on a row.  A row that fails validation or
\* whose write storage refuses is counted as skipped with one error message;
\* every other row is written, whether it comes before or after a failed
\* row, unless its unique role is taken
C15_BadRowNeverAborts ==
  Finished("import") =>
    /\ Req.result.code \in {"ok", "csv_required", "too_short", "missing_columns"}
    /\ Req.rows # <<>> => Req.result.code = "ok"
    /\ Req.stats.skipped = Cardinality({k \in 1..Len(Req.rows) : ErrorsOf(k) # {}})
    /\ \A k \in 1..Len(Req.rows) :
         LET m == Req.rows[k].member IN
         /\ Cardinality(ErrorsOf(k)) <= 1
         /\ (Invalid(k) \/ BindFails(m)) => Cardinality(ErrorsOf(k)) = 1
         /\ (~Invalid(k) /\ ~BindFails(m) /\ m.status \notin BUREAU_POSITIONS)
            => ErrorsOf(k) = {}
         /\ ErrorsOf(k) = {}
            => \E i \in ByEmail(members, m.email) :
                  LastAccepted(k) => /\ members[i].status = m.status
                                     /\ members[i].first_name = m.firstName

\* C15 case: of three rows the second was refused by storage; the first was
\* inserted before it and the third updated after it
C15_Witness ==
  /\ Imported
  /\ Len(Req.rows) = 3
  /\ ErrorsOf(1) = {} /\ ErrorsOf(3) = {}
  /\ BindFails(Req.rows[2].member)
  /\ \E e \in ErrorsOf(2) : Req.stats.errors[e].text = "storage error"
  /\ Req.stats.imported = 1 /\ Req.stats.updated = 1 /\ Req.stats.skipped = 1
  /\ ByEmail(members, EmailC) # {}


\* row k is a valid row for an email no member has, and the unique role it
\* claims, if any, has no holder
ValidNew(k) ==
  LET m == Req.rows[k].member IN
  /\ ~Invalid(k) /\ ~BindFails(m)
  /\ ByEmail(Req.m0, m.email) = {}
  /\ m.status \in BUREAU_POSITIONS => Holders(Req.m0, m.status, 0) = {}

\* an import of a header and three data lines: the second has a malformed
\* email, the first and the third are valid new members
BadSecondOfThree ==
  /\ Imported
  /\ Len(Req.rows) = 3
  /\ ValidNew(1) /\ ValidNew(3)
  /\ Req.rows[1].member.email # Req.rows[3].member.email
  /\ Req.rows[2].member.firstName \notin {Absent, <<>>}
  /\ Req.rows[2].member.lastName \notin {Absent, <<>>}
  /\ Req.rows[2].member.email \notin {Absent, <<>>}
  /\ ~isValidEmail(Req.rows[2].member.email)

\* C16 (as claimed): such an import answers imported = 2 and skipped = 1 and
\* its error message for the bad row begins with 'Row 2:'
C16_SecondRowIsRow2 ==
  BadSecondOfThree =>
    /\ Req.result.stats.imported = 2
    /\ Req.result.stats.skipped = 1
    /\ Len(Req.result.errors) = 1
    /\ Req.result.errors[1].row = 2

\* C16 (amended): such an import answers imported = 2 and skipped = 1 and
\* its error message for the bad row is 'Row 3: Invalid email format': rows
\* are numbered as the lines of the file, the header being line 1
C16_SecondRowIsRow3 ==
  BadSecondOfThree =>
    /\ Req.result.stats.imported = 2
    /\ Req.result.stats.skipped = 1
    /\ Len(Req.result.errors) = 1
    /\ Req.result.errors[1].row = 3
    /\ Req.result.errors[1].text = "Invalid email format"

\* C16 case: such an import has answered, and both new members are stored
C16_Witness ==
  /\ BadSecondOfThree
  /\ ByEmail(members, EmailC) # {}
  /\ ByEmail(members, EmailD) # {}
  /\ Cardinality(DOMAIN members) = Cardinality(DOMAIN Req.m0) + 2


\* the members that held, when the import started, the unique role row k
\* claims, under another email than the row's, and still hold it when row k
\* is read: the earlier rows accepted for their email claim the same role
HoldersAgainst(k) ==
  LET m == Req.rows[k].member IN
  IF m.status \notin BUREAU_POSITIONS THEN {}
  ELSE {h \in Holders(Req.m0, m.status, 0) :
          /\ Req.m0[h].email # m.email
          /\ \A j \in 1..(k - 1) :
               (Req.rows[j].member.email = Req.m0[h].email /\ ErrorsOf(j) = {})
               => Req.rows[j].member.status = m.status}

\* no row of the import other than row k was accepted for this email
OnlyRowFor(email, k) ==
  \A j \in 1..Len(Req.rows) :
     (j # k /\ Req.rows[j].member.email = email) => ErrorsOf(j) # {}

\* row k left storage alone: the holder's row and the rows of the claiming
\* email are as they were when the import started
NothingWrittenBy(k, h) ==
  LET m == Req.rows[k].member IN
  /\ OnlyRowFor(Req.m0[h].email, k) => (h \in DOMAIN members /\ members[h] = Req.m0[h])
  /\ OnlyRowFor(m.email, k)
     => \A i \in ByEmail(members, m.email) : i \in DOMAIN Req.m0 /\ members[i] = Req.m0[i]

\* an earlier row of the import passed validation with the role row k
\* claims (whether or not storage then accepted its write)
ClaimedEarlier(k) ==
  \E j \in 1..(k - 1) :
     /\ Req.rows[j].member.status = Req.rows[k].member.status
     /\ \A e \in ErrorsOf(j) : Req.stats.errors[e].text = "storage error"

\* C17 (as claimed): a valid row claiming a unique role that a member with a
\* different email holds in storage is skipped with one error message that
\* names the holder, and writes neither the holder's row nor a row for its
\* own email
C17_HolderNamed ==
  Imported =>
    \A k \in 1..Len(Req.rows) : \A h \in HoldersAgainst(k) :
       ~Invalid(k) =>
         /\ Cardinality(ErrorsOf(k)) = 1
         /\ \A e \in ErrorsOf(k) :
              /\ Req.stats.errors[e].first_name = Req.m0[h].first_name
              /\ Req.stats.errors[e].last_name = Req.m0[h].last_name
         /\ NothingWrittenBy(k, h)

\* C17 (amended): such a row is skipped with one error message that names
\* the role, and writes neither the holder's row nor a row for its own
\* email; the message names the holder ('already held by') unless an earlier
\* row of the same import passed validation with that role, in which case it
\* is 'already assigned in this import' and names nobody
C17_HolderNamedUnlessClaimed ==
  Imported =>
    \A k \in 1..Len(Req.rows) : \A h \in HoldersAgainst(k) :
       ~Invalid(k) =>
         /\ Cardinality(ErrorsOf(k)) = 1
         /\ \A e \in ErrorsOf(k) :
              LET err == Req.stats.errors[e] IN
              /\ err.role = STATUS_LABELS(Req.rows[k].member.status)
              /\ IF ClaimedEarlier(k)
                 THEN /\ err.text = "already assigned in this import"
                      /\ err.first_name = <<>> /\ err.last_name = <<>>
                 ELSE /\ err.text = "already held by"
                      /\ err.first_name = Req.m0[h].first_name
                      /\ err.last_name = Req.m0[h].last_name
         /\ NothingWrittenBy(k, h)

\* C17 case: member 2 is secretary and the only row of the import, for a new
\* email, claimed secretary: it was refused naming member 2
C17_Witness ==
  /\ Imported
  /\ Len(Req.rows) = 1
  /\ HoldersAgainst(1) = {2}
  /\ Req.rows[1].member.email = EmailC
  /\ Req.stats.errors[1].text = "already held by"
  /\ Req.stats.errors[1].first_name = <<"B", "o">>
  /\ members = Req.m0


\* the rows of the import accepted for the email of member i
AcceptedFor(i) ==
  {k \in 1..Len(Req.rows) :
     Req.rows[k].member.email = Req.m0[i].email /\ ErrorsOf(k) = {}}

\* the value has no column in the CSV (null) or its cell is blank
NotSupplied(v) == v = Null \/ v = <<>>

\* C18 (as claimed): when the import updates an existing member, each of
\* phone, student id and enrollment number whose column is absent or whose
\* cell is blank in the rows for that member keeps its stored value
C18_BlankKeepsStored ==
  Imported =>
    \A i \in DOMAIN Req.m0 \cap DOMAIN members :
       /\ (\A k \in AcceptedFor(i) : NotSupplied(Req.rows[k].member.phone))
          => members[i].phone = Req.m0[i].phone
       /\ (\A k \in AcceptedFor(i) : NotSupplied(Req.rows[k].member.studentId))
          => members[i].student_id = Req.m0[i].student_id
       /\ (\A k \in AcceptedFor(i) : NotSupplied(Req.rows[k].member.enrollmentNumber))
          => members[i].enrollment_number = Req.m0[i].enrollment_number


\* the lines of the text that hold something other than white space
TextLines(csv) ==
  LET all == Split(csv, "\n")
      nonBlank(l) == Trim(l) # <<>>
  IN SelectSeq(all, nonBlank)

\* the first such line names no first-name, no last-name or no email column
HeaderLacksRequired(csv) ==
  LET headerMap == parseCSVHeaders(parseCSVLine(TextLines(csv)[1]))
  IN \E f \in {"firstName", "lastName", "email"} : headerMap[f] = -1

Unusable(csv) == Len(TextLines(csv)) < 2 \/ HeaderLacksRequired(csv)

\* C19: an import whose input has fewer than two lines, or whose header has
\* no recognised first-name, last-name or email column, fails as a whole with
\* a single error, processes no row and writes nothing
C19_UnusableInputFailsWhole ==
  (Req.kind = "import" /\ Unusable(Req.csv)) =>
    /\ Req.pc = "done"
    /\ Req.result.code \in {"too_short", "missing_columns"}
    /\ Req.stats = NoStats /\ Req.rows = <<>>
    /\ members = Req.m0 /\ history = Req.h0

\* a CSV with a data row for a new member but no email column was refused
C19_Witness ==
  /\ Finished("import") /\ Req.result.code = "missing_columns"
  /\ Len(TextLines(Req.csv)) = 2
  /\ members = Req.m0 /\ history = Req.h0


\* the labels listed for each status
LabelsOf(status) ==
  CASE status = "active" ->
         {<<"m", "e", "m", "b", "r", "e", " ", "a", "c", "t", "i", "f">>, <<"a", "c", "t", "i", "f">>}
    [] status = "honor" ->
         {<<"m", "e", "m", "b", "r", "e", " ", "d", "'", "h", "o", "n", "n", "e", "u", "r">>,
          <<"h", "o", "n", "n", "e", "u", "r">>}
    [] status = "secretary" ->
         {<<"s", "e", "c", "r", "é", "t", "a", "i", "r", "e">>, <<"s", "e", "c", "r", "e", "t", "a", "i", "r", "e">>}
    [] status = "treasurer" ->
         {<<"t", "r", "é", "s", "o", "r", "i", "e", "r">>, <<"t", "r", "e", "s", "o", "r", "i", "e", "r">>}
    [] status = "president" ->
         {<<"p", "r", "é", "s", "i", "d", "e", "n", "t">>, <<"p", "r", "e", "s", "i", "d", "e", "n", "t">>}
    [] status = "honorary_president" ->
         {<<"p", "r", "é", "s", "i", "d", "e", "n", "t", " ", "d", "'", "h", "o", "n", "n", "e", "u", "r">>,
          <<"p", "r", "e", "s", "i", "d", "e", "n", "t", " ", "d", "'", "h", "o", "n", "n", "e", "u", "r">>}
    [] status = "vice_president" ->
         {<<"v", "i", "c", "e", "-", "p", "r", "é", "s", "i", "d", "e", "n", "t">>,
          <<"v", "i", "c", "e", "-", "p", "r", "e", "s", "i", "d", "e", "n", "t">>,
          <<"v", "i", "c", "e", " ", "p", "r", "é", "s", "i", "d", "e", "n", "t">>,
          <<"v", "i", "c", "e", " ", "p", "r", "e", "s", "i", "d", "e", "n", "t">>}
    [] status = "pending" ->
         {<<"e", "n", " ", "a", "t", "t", "e", "n", "t", "e">>, <<"p", "e", "n", "d", "i", "n", "g">>}
    [] status = "rejected" ->
         {<<"r", "e", "f", "u", "s", "é">>, <<"r", "e", "f", "u", "s", "e">>,
          <<"r", "e", "j", "e", "c", "t", "e", "d">>}
    [] status = "expired" ->
         {<<"e", "x", "p", "i", "r", "é">>, <<"e", "x", "p", "i", "r", "e">>,
          <<"e", "x", "p", "i", "r", "e", "d">>}

\* the label, trimmed and compared without regard to case, is listed for the status
ListedFor(label, status) ==
  /\ label \notin {Null, Absent}
  /\ Trim(ToLower(label)) \in LabelsOf(status)

Mapped == Req.kind = "map" /\ Req.pc = "done"

\* C20 (as claimed): a listed label maps to its canonical status, every
\* unrecognized, empty or absent label maps to active, and the result is
\* always one of the ten statuses
C20_LabelMapsToStatus ==
  Mapped =>
    /\ \A s \in VALID_STATUSES : ListedFor(Req.label, s) => Req.status = s
    /\ (\A s \in VALID_STATUSES : ~ListedFor(Req.label, s)) => Req.status = "active"
    /\ Req.status \in VALID_STATUSES


-----------------------------------------------------------------------------
(* Claims about requests one after the other (SpecChain) *)

\* the application names an email that a pending or active member held, in
\* its stored form, when the request came in
AppliesForHeld(tk) ==
  /\ tk.kind = "apply" /\ tk.errs = <<>>
  /\ \E i \in DOMAIN tk.m0 :
       /\ tk.m0[i].email = Trim(ToLower(tk.form.email))
       /\ tk.m0[i].status \in {"pending", "active"}

\* C21 (as claimed): no two members have the same email, every stored email
\* is lower-case and trimmed, and an application for an email a pending or
\* active member holds is answered 409 and creates no member
C21_EmailsUniqueAndNormalised ==
  /\ \A i, j \in DOMAIN members : members[i].email = members[j].email => i = j
  /\ \A i \in DOMAIN members : members[i].email = Trim(ToLower(members[i].email))
  /\ (Quiet /\ AppliesForHeld(tasks[Latest])) =>
       /\ tasks[Latest].result.code = "duplicate"
       /\ members = tasks[Latest].m0


-----------------------------------------------------------------------------
(* Claims about apply, one request at a time (Spec) *)

\* the storage holds what it held when the request came in, plus member id
\* and one history entry
OneMemberOneEntryMore(id) ==
  /\ id \notin DOMAIN Req.m0
  /\ DOMAIN members = DOMAIN Req.m0 \cup {id}
  /\ \A i \in DOMAIN Req.m0 : members[i] = Req.m0[i]
  /\ Len(history) = Len(Req.h0) + 1
  /\ SubSeq(history, 1, Len(Req.h0)) = Req.h0

\* C22: a successful apply creates exactly one member, pending, and exactly
\* one history entry for it, from null to pending; an apply refused for a
\* validation error or a duplicate email creates neither
C22_ApplyCreatesOneOrNothing ==
  Finished("apply") =>
    /\ Req.result.code = "ok" =>
         \E id \in DOMAIN members :
            /\ OneMemberOneEntryMore(id)
            /\ members[id].status = "pending"
            /\ history[Len(history)].member_id = id
            /\ history[Len(history)].old_status = NullStr
            /\ history[Len(history)].new_status = "pending"
    /\ Req.result.code \in {"validation", "duplicate"} =>
         members = Req.m0 /\ history = Req.h0

\* an application under a free email has succeeded
C22_Witness ==
  /\ Finished("apply") /\ Req.result.code = "ok"
  /\ \E id \in DOMAIN members : OneMemberOneEntryMore(id) /\ members[id].email = EmailC


\* the five rules of the application form, in the order they are reported
Rules == 1..5

\* the form violates rule r
Violates(form, r) ==
  CASE r = 1 -> form.firstName \in {Absent, Null} \/ Trim(form.firstName) = <<>>
    [] r = 2 -> form.lastName \in {Absent, Null} \/ Trim(form.lastName) = <<>>
    [] r = 3 -> \/ form.email \in {Absent, Null}
                \/ Trim(form.email) = <<>>
                \/ ~isValidEmail(form.email)
    [] r = 4 -> form.enrollmentTrack \in {Absent, Null, <<>>}
    [] r = 5 -> \A c \in {form.phone, form.telegram, form.discord} :
                   c \in {Absent, Null} \/ Trim(c) = <<>>

\* the messages of rule r
MessagesOf(r) ==
  CASE r = 1 -> {"Le prénom est requis"}
    [] r = 2 -> {"Le nom est requis"}
    [] r = 3 -> {"L'email est requis", "L'email est invalide"}
    [] r = 4 -> {"Le cursus est requis"}
    [] r = 5 -> {"Au moins un moyen de contact est requis"}

\* the rule a message belongs to
RuleOf(msg) == CHOOSE r \in Rules : msg \in MessagesOf(r)

\* C23: the message list of an application holds the message of each of the
\* five rules exactly when the form violates the rule, in the order of the
\* rules, and the application is refused with 400 exactly when the list is
\* not empty
C23_EveryViolationReported ==
  Finished("apply") =>
    /\ \A r \in Rules :
         Violates(Req.form, r) <=> \E k \in 1..Len(Req.errs) : Req.errs[k] \in MessagesOf(r)
    /\ \A k \in 1..Len(Req.errs) : \E r \in Rules : Req.errs[k] \in MessagesOf(r)
    /\ \A k \in 1..(Len(Req.errs) - 1) : RuleOf(Req.errs[k]) < RuleOf(Req.errs[k + 1])
    /\ Req.result.code = "validation" <=> Req.errs # <<>>

\* a form that breaks the first, the fourth and the fifth rule was refused
\* with the three messages
C23_Witness ==
  /\ Finished("apply") /\ Req.result.code = "validation"
  /\ Req.errs = <<"Le prénom est requis", "Le cursus est requis",
                  "Au moins un moyen de contact est requis">>


-----------------------------------------------------------------------------
(* Claims about adminOnly (SpecAuth) *)

\* adminOnly has seen the request
Arrived == Req.pc # "arriving"

\* the request carries 'Bearer ' followed by the configured token
RightHeader == Req.auth = <<"B", "e", "a", "r", "e", "r", " ">> \o ADMIN_TOKEN

\* the request holds nothing read from storage and storage is as it began
Untouched ==
  /\ Req = Done([IdleTask EXCEPT !.auth = Req.auth, !.kind = Req.kind], Req.result)
  /\ settings = DefaultSettings
  /\ nextId = 3
  /\ \E sts \in AuthSeeds \X AuthSeeds :
       /\ members = [i \in SeedIds |-> SeedRow(i, sts[i])]
       /\ history = SeedHistory(sts)
       /\ nextHistId = Len(history) + 1

\* C24: a request for any of the nine admin operations whose Authorization
\* header is not 'Bearer ' followed by the configured token is answered 401
\* and reads and writes nothing; with that header it is not answered 401 and
\* the handler of the operation runs (it has seen the tables when it answers)
C24_AdminOnlyGuardsEveryHandler ==
  Arrived =>
    /\ Req.kind \in AdminOps
    /\ ~RightHeader => Req.result.code = "unauthorized" /\ Untouched
    /\ RightHeader => Req.result.code # "unauthorized"
    /\ (RightHeader /\ Req.pc = "done") => Req.m0 # <<>>

\* a request with a token that is a prefix of the configured one was refused
C24_Witness ==
  /\ Arrived /\ Req.kind = "updateSettings"
  /\ Req.auth = <<"B", "e", "a", "r", "e", "r", " ", "s", "3">>
  /\ Req.result.code = "unauthorized" /\ Untouched

\* the request the router has answered, its router, and its path as the
\* routes see it
Routed == Req.kind = "route" /\ Req.pc = "done"

RoutedMethod == ToUpper(Req.form.method)

RoutedPath == StripBase(Req.rows.basePath, Req.form.path)

\* the request is a POST or a PUT that declares a body larger than the
\* router accepts
BodyTooLarge ==
  /\ RoutedMethod \in {<<"P", "O", "S", "T">>, <<"P", "U", "T">>}
  /\ Req.form.contentLength > Req.rows.maxBodySize

\* a pattern matches a whole path: both have the same segments, a segment
\* of the pattern that is a parameter standing for any non-empty segment
SegmentsOf(pattern) ==
  Split([i \in 1..Len(pattern) |->
           IF pattern[i].type = "param" THEN ":" ELSE pattern[i].c], "/")

PatternMatchesPath(pattern, path) ==
  LET ps == SegmentsOf(pattern)
      xs == Split(path, "/")
  IN /\ Len(ps) = Len(xs)
     /\ \A i \in 1..Len(ps) :
          IF ps[i] = <<":">> THEN xs[i] # <<>> ELSE ps[i] = xs[i]

\* the values of the parameter segments of the pattern in the path, in order
ParamsOf(pattern, path) ==
  LET ps == SegmentsOf(pattern)
      xs == Split(path, "/")
      names == SelectSeq(pattern, LAMBDA tok : tok.type = "param")
      at == SelectSeq([i \in 1..Len(ps) |-> i], LAMBDA i : ps[i] = <<":">>)
  IN [k \in 1..Len(at) |-> [name |-> names[k].name, value |-> xs[at[k]]]]

\* the routes that match the request: by method alone, and by method or by
\* being registered for every method
RoutesFor(methods) ==
  {k \in 1..Len(Req.rows.routes) :
     /\ Req.rows.routes[k].method \in methods
     /\ PatternMatchesPath(Req.rows.routes[k].pattern, RoutedPath)}

DispatchedAmong(S) ==
  IF S = {}
  THEN Req.result.code = "not_found" /\ Req.found = 0
  ELSE /\ Req.result.code = "handled"
       /\ Req.found = FirstOf(S)
       /\ Req.result.role = Req.rows.routes[FirstOf(S)].handler
       /\ Req.config = ParamsOf(Req.rows.routes[FirstOf(S)].pattern, RoutedPath)

\* C25 (as claimed): the router calls the handler of the first route whose
\* method equals the request's and whose pattern matches the whole path,
\* with the path's parameters, and answers 404 without calling a handler
\* when there is no such route.
C25_FirstMatchOr404 ==
  Routed => DispatchedAmong(RoutesFor({RoutedMethod}))

\* C25 (amended): a POST or PUT that declares a body larger than the
\* router's limit is answered 413 and no handler is called; any other
\* request goes to the handler of the first route, in registration order,
\* that is registered for the request's method or for every method and
\* whose pattern matches the whole path, with the path's parameters, and is
\* answered 404 without a handler called when there is no such route.
C25_FirstMatchOr404UnlessTooLarge ==
  Routed =>
    IF BodyTooLarge
    THEN Req.result.code = "too_large" /\ Req.found = 0
    ELSE DispatchedAmong(RoutesFor({RoutedMethod, <<"A", "L", "L">>}))

\* a request that two routes match has gone to the one registered first
C25_Witness ==
  /\ Routed
  /\ ~BodyTooLarge
  /\ Cardinality(RoutesFor({RoutedMethod, <<"A", "L", "L">>})) > 1
  /\ Req.result.code = "handled"
  /\ Req.config # <<>>

-----------------------------------------------------------------------------
(* Claims about the dates and the answers of one updateMember request      *)
(* (Spec)                                                                  *)

\* the request has answered and has moved its member from status `from` to
\* status `to`
Moved(from, to) ==
  /\ Finished("update")
  /\ Req.id \in DOMAIN Req.m0 /\ Req.id \in DOMAIN members
  /\ Req.m0[Req.id].status \in from
  /\ Req.body.status \in to
  /\ members[Req.id].status = Req.body.status

\* the request has stamped the member: approved now, expiring at the end of
\* the membership year of the request's clock
Stamped ==
  /\ members[Req.id].approved_at = NowStamp
  /\ members[Req.id].expires_at = ExpiryDate(Req.t0)

\* the member's dates are those it had before the request
DatesAsBefore ==
  /\ members[Req.id].approved_at = Req.m0[Req.id].approved_at
  /\ members[Req.id].expires_at = Req.m0[Req.id].expires_at

\* C26: updateMember moving a member from pending, rejected or expired to a
\* unique bureau role sets approved_at and expires_at, whatever else the
\* body carries
C26_BureauApprovalAlwaysStamps ==
  Moved({"pending", "rejected", "expired"}, BUREAU_POSITIONS) => Stamped

\* C27: honorary_president counts as active-like: a member moved from
\* pending to honorary_president is stamped, and a member moved from
\* honorary_president to active keeps its dates
C27_HonoraryPresidentActiveLike ==
  /\ Moved({"pending"}, {"honorary_president"}) => Stamped
  /\ Moved({"honorary_president"}, {"active"}) => DatesAsBefore

\* C28: a request answered 'No updates provided' has changed no member row
\* and no History Entry
C28_NoUpdatesWritesNothing ==
  (Finished("update") /\ Req.result.code = "no_updates")
  => members = Req.m0 /\ history = Req.h0

\* the request, answered or in flight, has changed the status of its member
StatusChangedByRequest ==
  /\ Req.kind = "update" /\ Req.pc # "idle"
  /\ Req.id \in DOMAIN Req.m0 /\ Req.id \in DOMAIN members
  /\ Req.body.status # Req.m0[Req.id].status
  /\ members[Req.id].status = Req.body.status

\* the member row holds the field edits of the request's body
EditsApplied ==
  ApplyUpd(members[Req.id], buildFieldUpdates(Req.body)) = members[Req.id]

\* C29: the status change of an updateMember request reaches the member row
\* together with the request's field edits and its approval stamp: in no
\* state, during the request or after it, whatever it answers, does the row
\* hold the new status without them
C29_StatusWithItsOtherEffects ==
  StatusChangedByRequest =>
    /\ EditsApplied
    /\ (/\ Req.m0[Req.id].status \notin activeStatuses
        /\ Req.body.status \in activeStatuses) => members[Req.id].approved_at = NowStamp

-----------------------------------------------------------------------------
(* Claims about concurrent updateMember and deleteMember requests (SpecDel) *)

\* the updateMember requests whose conditional update changed no row and
\* that have answered
RefusedByCas ==
  {t \in Tasks : /\ tasks[t].kind = "update" /\ tasks[t].pc = "done"
                 /\ tasks[t].result.code \in {"not_found", "conflict"}
                 /\ tasks[t].body.status \in BUREAU_POSITIONS
                 /\ tasks[t].id \in DOMAIN tasks[t].m0}

\* C30: a request whose conditional bureau-role update changed no row
\* answers 'Member not found' only if its member does not exist, whatever
\* other update and delete requests run beside it
C30_NotFoundOnlyForMissingMember ==
  \A t \in RefusedByCas :
    tasks[t].result.code = "not_found" => tasks[t].id \notin DOMAIN members

-----------------------------------------------------------------------------
(* Claims about the history ledger (Spec) *)

\* C31: an updateMember request whose status is the status its member has
\* appends no History Entry, for every status, the unique bureau roles
\* included
C31_SameStatusNoEntry ==
  (/\ Finished("update")
   /\ Req.id \in DOMAIN Req.m0
   /\ Req.body.status = Req.m0[Req.id].status)
  => history = Req.h0

\* the History Entries of a member, oldest first
EntriesOf(id) ==
  SelectSeq(history, LAMBDA e : e.member_id = id)

\* the ledger tells the status of every member: the member has entries and
\* the latest names its status
LedgerCurrent ==
  \A id \in DOMAIN members :
    /\ EntriesOf(id) # <<>>
    /\ EntriesOf(id)[Len(EntriesOf(id))].new_status = members[id].status

\* C32: once a request has answered, whatever operation it was, the most
\* recent History Entry of every member names the member's current status
C32_LedgerFollowsStatus ==
  Req.pc = "done" => LedgerCurrent

-----------------------------------------------------------------------------
(* More claims about one importCSV request (SpecCsv, SpecRoster) *)

\* row k was refused as claiming a role already assigned in this import
InImportDuplicate(k) ==
  \E e \in ErrorsOf(k) : Req.stats.errors[e].text = "already assigned in this import"

\* C34: a row is refused as an in-import duplicate of a unique role only if
\* an earlier row of the import claimed the role for a different email; a
\* later row of the same email claiming the role again is processed
C34_DuplicateOnlyForOtherEmail ==
  Imported =>
    \A k \in 1..Len(Req.rows) :
      InImportDuplicate(k) =>
        \E j \in 1..(k - 1) :
          /\ Req.rows[j].member.status = Req.rows[k].member.status
          /\ Req.rows[j].member.email # Req.rows[k].member.email

\* the members the import has inserted and has not updated afterwards: one
\* row of the CSV names their email
InsertedByImport ==
  {id \in DOMAIN members \ DOMAIN Req.m0 :
     Cardinality({k \in 1..Len(Req.rows) :
                    Req.rows[k].member.email = members[id].email}) = 1}

\* C33: a member inserted by importCSV has approved_at and expires_at set
\* exactly when its status is active-like; inserted as pending, rejected or
\* expired it has neither
C33_InsertStampsActiveLikeOnly ==
  Imported =>
    \A id \in InsertedByImport :
      IF members[id].status \in {"pending", "rejected", "expired"}
      THEN members[id].approved_at = NullStr /\ members[id].expires_at = NullDate
      ELSE members[id].approved_at # NullStr /\ members[id].expires_at # NullDate

\* the header of the request's CSV names no enrollment-track column
NoTrackColumn ==
  parseCSVHeaders(parseCSVLine(TextLines(Req.csv)[1]))["enrollmentTrack"] = -1

\* C35: an import from a CSV without an enrollment-track column leaves the
\* stored enrollment track of every member it updates as it was
C35_TrackKeptWithoutColumn ==
  (Imported /\ NoTrackColumn) =>
    \A id \in DOMAIN Req.m0 :
      members[id].enrollment_track = Req.m0[id].enrollment_track

-----------------------------------------------------------------------------
(* Claims about one batchUpdateMembers and one apply request (Spec) *)

\* the listed members of the batch that exist
Listed == Range(Req.ids) \cap DOMAIN Req.m0

\* C36: a batch to active leaves approved_at and expires_at of every listed
\* member that was active-like before the batch as they were, and stamps
\* the listed members that enter the active-like set
C36_BatchKeepsDatesOfActive ==
  (Finished("batch") /\ Req.status = "active" /\ Req.result.code = "ok") =>
    \A i \in Listed :
      IF Req.m0[i].status \in activeStatuses \cup {"honorary_president"}
      THEN /\ members[i].approved_at = Req.m0[i].approved_at
           /\ members[i].expires_at = Req.m0[i].expires_at
      ELSE members[i].approved_at = NowStamp

\* the application is valid and names the email of a member whose status
\* was rejected or expired when the request came in
Reapplies ==
  /\ Finished("apply") /\ Req.errs = <<>>
  /\ \E i \in DOMAIN Req.m0 :
       /\ Req.m0[i].email = Trim(ToLower(Req.form.email))
       /\ Req.m0[i].status \in {"rejected", "expired"}

\* C37: an application for the email of a rejected or expired member is
\* answered success, and the member of that email is then pending
C37_ReapplicationAccepted ==
  Reapplies =>
    /\ Req.result.code = "ok"
    /\ \E j \in DOMAIN members :
         /\ members[j].email = Trim(ToLower(Req.form.email))
         /\ members[j].status = "pending"

-----------------------------------------------------------------------------
(* Claims about requests one after the other (SpecChain) *)

\* C38: after any sequence of apply, updateMember and importCSV requests
\* every member's first name and last name are non-empty and trimmed
C38_NamesNonEmptyAndTrimmed ==
  \A i \in DOMAIN members :
    /\ members[i].first_name # <<>> /\ members[i].first_name = Trim(members[i].first_name)
    /\ members[i].last_name # <<>> /\ members[i].last_name = Trim(members[i].last_name)

-----------------------------------------------------------------------------
(* Claims about the stored statuses (Spec) *)

\* C39: in every state, during and after a request of any kind, every
\* member's status is one of the ten statuses, and a member holding a unique
\* bureau role during or after a batch held it before the batch
C39_StatusAlwaysValid ==
  /\ \A i \in DOMAIN members :
       members[i].status \in
         {"pending", "active", "honor", "secretary", "treasurer", "president",
          "honorary_president", "vice_president", "rejected", "expired"}
  /\ Req.kind = "batch" =>
       \A i \in DOMAIN members :
         members[i].status \in {"secretary", "treasurer", "president", "vice_president"}
         => i \in DOMAIN Req.m0 /\ Req.m0[i].status = members[i].status

\* C39 case: a batch asking for president for two members was refused and
\* changed nobody
C39_Witness ==
  /\ Finished("batch")
  /\ Req.status = "president" /\ Len(Req.ids) = 2
  /\ Req.result.code = "invalid_status"
  /\ members = Req.m0

-----------------------------------------------------------------------------
(* Claims about parseCSVLine (SpecParse) *)

\* the line the request parsed
Line == Req.csv

\* position i of the line is outside double quotes: an even number of
\* double quotes comes before it
OutsideQuotes(i) ==
  Cardinality({j \in 1..(i - 1) : Line[j] = "\""}) % 2 = 0

\* a field value written as a quoted field: every double quote doubled, the
\* whole between double quotes
RECURSIVE DoubledQuotes(_)
DoubledQuotes(v) ==
  IF v = <<>> THEN <<>>
  ELSE (IF Head(v) = "\"" THEN <<"\"", "\"">> ELSE <<Head(v)>>) \o DoubledQuotes(Tail(v))

QuotedField(v) == <<"\"">> \o DoubledQuotes(v) \o <<"\"">>

\* the field values a line of the menu can hold as one quoted field
FieldValues == SeqsUpTo({"a", " ", ",", ";", "\""}, MaxLineLen - 2) \cup {<<>>}

\* C40: parseCSVLine splits the line at the commas, tabs and semicolons that
\* are outside double quotes and nowhere else, and reads a quoted field as
\* its value, a doubled double quote standing for one double quote
C40_QuotedFieldsRead ==
  (Req.kind = "parse" /\ Req.pc = "done") =>
    /\ Len(Req.rows) =
         1 + Cardinality({i \in 1..Len(Line) : Line[i] \in {",", "\t", ";"} /\ OutsideQuotes(i)})
    /\ \A v \in FieldValues : Line = QuotedField(v) => Req.rows = <<Trim(v)>>

====
